---- MODULE Spec2Model ----
(***************************************************************************)
(* Model of the EasyPrint price agent: product search (productSearch.js),  *)
(* price resolution (priceQuery.js) and the /query and /lookup routes      *)
(* (routes/pricing.js).  The catalog store (Supabase) is the environment:  *)
(* every read it answers may fail, and rows that a read leaves unordered   *)
(* come back in an order the store chooses.                                *)
(***************************************************************************)
EXTENDS Integers, Sequences, FiniteSets, TLC

VARIABLES
    products,       \* the products table, in the store's row order
    pricing,        \* the pricing table, a set of rows
    req,            \* the inputs of the operation under way
    pc,             \* the position of the operation under way
    reads,          \* the store reads issued so far by the operation
    found,          \* searchProducts' result: products tagged with matchType
    routeLeadTimeType, \* the delivery class the route is working with
    attempts,       \* history: the class and the number of quotes of each getPricingForProducts call
    results,        \* getPricingForProducts' result: the quotes (/lookup: the price found)
    resp            \* what the operation returned or answered

vars == <<products, pricing, req, pc, reads, found, routeLeadTimeType, attempts, results, resp>>

\* A null string, and a null number (<<>>) beside a number n (<<n>>).
NULL == "<null>"

NoNumber == <<>>

Num(n) == <<n>>

\* What an operation answered: nothing yet, a thrown error, a returned value,
\* or an HTTP response.
NoResponse == [kind |-> "none"]

Thrown == [kind |-> "threw"]

Returned(v) == [kind |-> "returned", value |-> v]

(***************************************************************************)
(* Strings.  A string is a TLA+ string; CharAt, Len, SubSeq and \o act on  *)
(* its characters.  The helpers below are JavaScript's String methods and  *)
(* PostgreSQL's ILIKE, computed character by character.                    *)
(***************************************************************************)
CharAt(s, i) == SubSeq(s, i, i)

IsDigit(c) == c \in {"0", "1", "2", "3", "4", "5", "6", "7", "8", "9"}

IsSpace(c) == c = " "

toLowerChar(c) ==
    CASE c = "A" -> "a" []
         c = "B" -> "b" []
         c = "C" -> "c" []
         c = "D" -> "d" []
         c = "E" -> "e" []
         c = "F" -> "f" []
         c = "G" -> "g" []
         c = "H" -> "h" []
         c = "I" -> "i" []
         c = "J" -> "j" []
         c = "K" -> "k" []
         c = "L" -> "l" []
         c = "M" -> "m" []
         c = "N" -> "n" []
         c = "O" -> "o" []
         c = "P" -> "p" []
         c = "Q" -> "q" []
         c = "R" -> "r" []
         c = "S" -> "s" []
         c = "T" -> "t" []
         c = "U" -> "u" []
         c = "V" -> "v" []
         c = "W" -> "w" []
         c = "X" -> "x" []
         c = "Y" -> "y" []
         c = "Z" -> "z" []
         OTHER -> c

RECURSIVE toLowerCase(_)
toLowerCase(s) ==
    IF s = "" THEN "" ELSE toLowerChar(Head(s)) \o toLowerCase(Tail(s))

RECURSIVE trimStart(_)
trimStart(s) ==
    IF s # "" /\ IsSpace(Head(s)) THEN trimStart(Tail(s)) ELSE s

RECURSIVE trimEnd(_)
trimEnd(s) ==
    IF s # "" /\ IsSpace(CharAt(s, Len(s)))
    THEN trimEnd(SubSeq(s, 1, Len(s) - 1))
    ELSE s

trim(s) == trimEnd(trimStart(s))

\* String.prototype.includes
includes(s, sub) ==
    \E i \in 0..(Len(s) - Len(sub)) : SubSeq(s, i + 1, i + Len(sub)) = sub

\* s.split(/\s+/): every run of white space is one separator; a leading or
\* trailing run leaves an empty first or last word.
RECURSIVE splitRuns(_, _, _, _)
splitRuns(s, acc, cur, inSep) ==
    IF s = "" THEN Append(acc, cur)
    ELSE IF IsSpace(Head(s))
         THEN IF inSep THEN splitRuns(Tail(s), acc, cur, TRUE)
              ELSE splitRuns(Tail(s), Append(acc, cur), "", TRUE)
         ELSE splitRuns(Tail(s), acc, cur \o Head(s), FALSE)

splitWhitespace(s) == splitRuns(s, <<>>, "", FALSE)

\* s.split(' '): every single space is a separator.
RECURSIVE splitEach(_, _, _)
splitEach(s, acc, cur) ==
    IF s = "" THEN Append(acc, cur)
    ELSE IF Head(s) = " "
         THEN splitEach(Tail(s), Append(acc, cur), "")
         ELSE splitEach(Tail(s), acc, cur \o Head(s))

splitSpace(s) == splitEach(s, <<>>, "")

Range(seq) == {seq[i] : i \in DOMAIN seq}

\* The first n elements: a read's .limit(n).
limitTo(seq, n) == IF Len(seq) <= n THEN seq ELSE SubSeq(seq, 1, n)

\* PostgreSQL LIKE on case-folded operands: % is any run of characters and
\* _ is any one character.
RECURSIVE likeMatch(_, _)
likeMatch(s, p) ==
    IF p = "" THEN s = ""
    ELSE IF Head(p) = "%"
         THEN likeMatch(s, Tail(p)) \/ (s # "" /\ likeMatch(Tail(s), p))
         ELSE IF Head(p) = "_"
              THEN s # "" /\ likeMatch(Tail(s), Tail(p))
              ELSE s # "" /\ Head(s) = Head(p) /\ likeMatch(Tail(s), Tail(p))

ilike(s, p) == likeMatch(toLowerCase(s), toLowerCase(p))

(***************************************************************************)
(* The catalog.  A product row is [name, category]; the import gives each  *)
(* product the category its name derives.                                  *)
(***************************************************************************)
deriveCategory(productName) ==
    LET name == toLowerCase(productName) IN
    IF includes(name, "tote bag") THEN "Tote Bags"
    ELSE IF includes(name, "tumbler") THEN "Drinkware"
    ELSE IF includes(name, "mug") THEN "Drinkware"
    ELSE IF includes(name, "bottle") THEN "Drinkware"
    ELSE IF includes(name, "notebook") \/ includes(name, "notepad") THEN "Stationery"
    ELSE IF includes(name, "pen") THEN "Stationery"
    ELSE IF includes(name, "lanyard") THEN "Accessories"
    ELSE IF includes(name, "umbrella") THEN "Accessories"
    ELSE IF includes(name, "cap") \/ includes(name, "hat") THEN "Apparel"
    ELSE IF includes(name, "t-shirt") \/ includes(name, "polo") THEN "Apparel"
    ELSE "Corporate Gifts"

ProductRow(name) == [name |-> name, category |-> deriveCategory(name)]

\* One store read as the log keeps it: the site that issued it, the delivery
\* class and product it asked for (NULL when it names none), and whether the
\* store answered it.
Read(site, lt, product, ok) == [site |-> site, lt |-> lt, product |-> product, ok |-> ok]

(***************************************************************************)
(* productSearch.js                                                        *)
(***************************************************************************)
significantWords(s) ==
    SelectSeq(splitWhitespace(toLowerCase(s)), LAMBDA w : Len(w) > 2)

\* The mutant of validateMatch: the 50% threshold is not applied.
validateMatchNoThreshold(searchTerm, foundProductName) == TRUE

validateMatch(searchTerm, foundProductName) ==
    LET searchWords == significantWords(searchTerm)
        productWords == splitWhitespace(toLowerCase(foundProductName))
        matchingWords ==
            SelectSeq(searchWords, LAMBDA sw :
                \E i \in DOMAIN productWords :
                    includes(productWords[i], sw) \/ includes(sw, productWords[i]))
    IN  IF Len(searchWords) = 0 THEN TRUE
        ELSE 2 * Len(matchingWords) >= Len(searchWords)

categoryFilter(row, category) ==
    category \in {NULL, ""} \/ row.category = category

\* Tier 1: .eq('name', query)
searchExact(rows, query, category, limit) ==
    limitTo(SelectSeq(rows, LAMBDA r : r.name = query /\ categoryFilter(r, category)), limit)

\* Tier 2: .ilike('name', query)
searchExactInsensitive(rows, query, category, limit) ==
    limitTo(SelectSeq(rows, LAMBDA r : ilike(r.name, query) /\ categoryFilter(r, category)), limit)

\* Tier 3: .ilike('name', '%word%') for every significant word
searchFuzzy(rows, query, category, limit) ==
    LET words == significantWords(query) IN
    IF Len(words) = 0
    THEN limitTo(SelectSeq(rows, LAMBDA r :
             ilike(r.name, "%" \o trim(query) \o "%") /\ categoryFilter(r, category)), limit)
    ELSE limitTo(SelectSeq(rows, LAMBDA r :
             (\A i \in DOMAIN words : ilike(r.name, "%" \o words[i] \o "%"))
             /\ categoryFilter(r, category)), limit)

withMatchType(rows, matchType) ==
    [i \in DOMAIN rows |-> [name |-> rows[i].name, category |-> rows[i].category,
                            matchType |-> matchType]]

\* The mutant of tierHit: a tier that found products does not end the search.
tierHitNever(result) == FALSE

\* if (result.length > 0) return ...
tierHit(result) == Len(result) > 0

\* What searchProducts is called with: its own arguments, or the /query
\* route's (parsedQuery.product || '', { limit: 5 }).
QueryLimit == 5

DefaultLimit == 10

searchQuery ==
    IF req.op = "search" THEN req.query
    ELSE IF req.product = NULL THEN "" ELSE req.product

searchLimit == IF req.op = "search" THEN req.limit ELSE QueryLimit

searchCategory == IF req.op = "search" THEN req.category ELSE NULL

searchTerm == trim(searchQuery)

\* Where control goes when searchProducts returns or throws.
afterSearch == IF req.op = "search" THEN "done" ELSE "searched"

\* An error thrown by a service: it ends a direct call, and the routes' catch
\* answers it with 500 DATABASE_ERROR.
httpError(status, code) ==
    [kind |-> "http", status |-> status, code |-> code,
     results |-> <<>>, alternatives |-> <<>>, suggestions |-> <<>>,
     meta_message |-> NULL, data |-> <<>>]

\* formatQueryResponse with no meta.message.
httpOk(quotes, alternatives, suggestions) ==
    [kind |-> "http", status |-> 200, code |-> "OK",
     results |-> quotes, alternatives |-> alternatives, suggestions |-> suggestions,
     meta_message |-> NULL, data |-> <<>>]

serviceError ==
    IF req.op \in {"query", "lookup"}
    THEN httpError(500, "DATABASE_ERROR")
    ELSE Thrown

Throw ==
    /\ pc' = "done"
    /\ resp' = serviceError

\* The mutant of emptyQuery: a query of white space only is not seen as empty.
emptyQueryUntrimmed(query) == query = ""

\* if (!query || query.trim() === '')
emptyQuery(query) == query = "" \/ trim(query) = ""

\* if (!query || query.trim() === '') return [];
SearchStart ==
    /\ pc = "searchProducts"
    /\ IF emptyQuery(searchQuery)
       THEN /\ found' = <<>>
            /\ pc' = afterSearch
       ELSE /\ pc' = "searchExact"
            /\ UNCHANGED found
    /\ UNCHANGED <<products, pricing, req, reads, routeLeadTimeType, attempts, results, resp>>

SearchExact ==
    /\ pc = "searchExact"
    /\ \E ok \in BOOLEAN :
        /\ reads' = Append(reads, Read("searchExact", NULL, NULL, ok))
        /\ IF ~ok THEN Throw /\ UNCHANGED found
           ELSE LET result == searchExact(products, searchTerm, searchCategory, searchLimit) IN
                IF tierHit(result)
                THEN /\ found' = withMatchType(result, "exact")
                     /\ pc' = afterSearch
                     /\ UNCHANGED resp
                ELSE /\ pc' = "searchExactInsensitive"
                     /\ UNCHANGED <<found, resp>>
    /\ UNCHANGED <<products, pricing, req, routeLeadTimeType, attempts, results>>

SearchExactInsensitive ==
    /\ pc = "searchExactInsensitive"
    /\ \E ok \in BOOLEAN :
        /\ reads' = Append(reads, Read("searchExactInsensitive", NULL, NULL, ok))
        /\ IF ~ok THEN Throw /\ UNCHANGED found
           ELSE LET result == searchExactInsensitive(products, searchTerm, searchCategory, searchLimit) IN
                IF tierHit(result)
                THEN /\ found' = withMatchType(result, "exact_insensitive")
                     /\ pc' = afterSearch
                     /\ UNCHANGED resp
                ELSE /\ pc' = "searchFuzzy"
                     /\ UNCHANGED <<found, resp>>
    /\ UNCHANGED <<products, pricing, req, routeLeadTimeType, attempts, results>>

SearchFuzzy ==
    /\ pc = "searchFuzzy"
    /\ \E ok \in BOOLEAN :
        /\ reads' = Append(reads, Read("searchFuzzy", NULL, NULL, ok))
        /\ IF ~ok THEN Throw /\ UNCHANGED found
           ELSE LET result == searchFuzzy(products, searchTerm, searchCategory, searchLimit)
                    validated == SelectSeq(result, LAMBDA r : validateMatch(searchTerm, r.name))
                IN  /\ found' = withMatchType(validated, "fuzzy")
                    /\ pc' = afterSearch
                    /\ UNCHANGED resp
    /\ UNCHANGED <<products, pricing, req, routeLeadTimeType, attempts, results>>

(***************************************************************************)
(* searchProducts on its own: every catalog of at most MaxProducts of the  *)
(* names below, every query below.                                         *)
(***************************************************************************)
MaxProducts == 2

SearchNames == {"Tote Bag", "TOTE BAG", "Canvas Tote Bag", "Hoodie", "Mug"}

ToteBagNames == {"Tote Bag", "TOTE BAG", "Canvas Tote Bag"}

SearchQueries ==
    {"Tote Bag", " Tote Bag ", "tote bag", "tote", "t-shirt and hoodie", "t_te",
     "t_te bag", "to", "", "  ", "T%", "hoodie mug"}

\* The sequences of at most n distinct elements of S.
Arrangements(S, n) ==
    {q \in UNION {[1..k -> S] : k \in 0..n} :
        \A i, j \in DOMAIN q : i # j => q[i] # q[j]}

Catalogs(names, n) ==
    {[i \in DOMAIN q |-> ProductRow(q[i])] : q \in Arrangements(names, n)}

InitSearch ==
    /\ products \in Catalogs(SearchNames, MaxProducts)
    /\ pricing = {}
    /\ req \in [op : {"search"}, query : SearchQueries,
                limit : {1, DefaultLimit}, category : {NULL, "Tote Bags"}]
    /\ pc = "searchProducts"
    /\ reads = <<>>
    /\ found = <<>>
    /\ routeLeadTimeType = NULL
    /\ attempts = <<>>
    /\ results = <<>>
    /\ resp = NoResponse

NextSearch == SearchStart \/ SearchExact \/ SearchExactInsensitive \/ SearchFuzzy

SpecSearch == InitSearch /\ [][NextSearch]_vars

(***************************************************************************)
(* Claims about searchProducts (checked under SpecSearch).                 *)
(***************************************************************************)
TierSites == <<"searchExact", "searchExactInsensitive", "searchFuzzy">>

TierTypes == <<"exact", "exact_insensitive", "fuzzy">>

searchReturned == pc = afterSearch /\ resp.kind = "none"

\* Some product's name is byte-equal to the trimmed query and passes the
\* category filter.
hasByteEqualProduct ==
    \E i \in DOMAIN products :
        /\ products[i].name = trim(searchQuery)
        /\ (searchCategory = NULL \/ products[i].category = searchCategory)

\* C1: the tiers are read in the order exact, case-insensitive, fuzzy, and
\* the search stops at the first tier that yields a product: the reads issued
\* are a prefix of the three tiers, a non-empty result carries the matchType
\* of the last tier read, and when some product name is byte-equal to the
\* trimmed query every result is 'exact' and neither the case-insensitive nor
\* the fuzzy read is issued; all results of a response carry one matchType.
C1_TierPriority ==
    /\ Len(reads) <= Len(TierSites)
    /\ \A i \in DOMAIN reads : reads[i].site = TierSites[i]
    /\ \A i, j \in DOMAIN found : found[i].matchType = found[j].matchType
    /\ (searchReturned /\ found # <<>>) => found[1].matchType = TierTypes[Len(reads)]
    /\ hasByteEqualProduct =>
           /\ \A i \in DOMAIN reads : reads[i].site = "searchExact"
           /\ \A i \in DOMAIN found : found[i].matchType = "exact"
           /\ (searchReturned => found # <<>>)

\* A search that found the byte-equal product while another product of the
\* catalog equals the query up to case.
C1_Witness ==
    /\ searchReturned
    /\ hasByteEqualProduct
    /\ Len(found) = 1 /\ found[1].matchType = "exact"
    /\ \E i \in DOMAIN products :
           /\ products[i].name # trim(searchQuery)
           /\ toLowerCase(products[i].name) = toLowerCase(trim(searchQuery))

\* The significant words of a query: its case-folded words longer than 2.
claimWords(query) ==
    LET ws == splitWhitespace(toLowerCase(trim(query))) IN
    {i \in DOMAIN ws : Len(ws[i]) > 2}

\* The significant words of the query that overlap a word of the name.
claimOverlap(query, name) ==
    LET ws == splitWhitespace(toLowerCase(trim(query)))
        ns == splitWhitespace(toLowerCase(name))
    IN  {i \in claimWords(query) :
            \E j \in DOMAIN ns : includes(ns[j], ws[i]) \/ includes(ws[i], ns[j])}

\* C2: a fuzzy result is a product whose name overlaps at least 50% of the
\* query's significant words, and "t-shirt and hoodie" against a catalog of
\* tote bags only returns nothing.
C2_FuzzyOverlap ==
    /\ \A i \in DOMAIN found :
           found[i].matchType = "fuzzy" =>
               2 * Cardinality(claimOverlap(searchQuery, found[i].name))
                   >= Cardinality(claimWords(searchQuery))
    /\ ( /\ searchReturned
         /\ searchQuery = "t-shirt and hoodie"
         /\ \A i \in DOMAIN products : products[i].name \in ToteBagNames )
       => found = <<>>

\* A fuzzy result that overlaps exactly one of the query's two significant
\* words.
C2_Witness ==
    /\ searchReturned
    /\ found # <<>> /\ found[1].matchType = "fuzzy"
    /\ Cardinality(claimWords(searchQuery)) = 2
    /\ Cardinality(claimOverlap(searchQuery, found[1].name)) = 1

\* C20: searchProducts called with an empty or whitespace-only query returns
\* an empty list and issues no store read.
C20_BlankQueryNoRead ==
    (req.op = "search" /\ trim(req.query) = "") =>
        /\ reads = <<>>
        /\ found = <<>>
        /\ resp.kind = "none"
        /\ pc \in {"searchProducts", "done"}

C20_Witness ==
    /\ req.op = "search"
    /\ req.query = "  "
    /\ searchReturned
    /\ found = <<>>
    /\ reads = <<>>

(***************************************************************************)
(* priceQuery.js.  A pricing row is [product_name, print_option,           *)
(* lead_time_type, quantity, unit_price, is_moq]; unit_price is a          *)
(* DECIMAL(10,2), held here in thousandths.  A service call's outcome is   *)
(* what it returned or threw together with the store reads it issued; a    *)
(* service is the set of outcomes the store's answers (a failed read, the  *)
(* row a limit(1) picks) allow.                                            *)
(***************************************************************************)
PricingRow(p, o, lt, q, price, moq) ==
    [product_name |-> p, print_option |-> o, lead_time_type |-> lt,
     quantity |-> q, unit_price |-> price, is_moq |-> moq]

Outcome(threw, val, rds) == [threw |-> threw, val |-> val, reads |-> rds]

failures(rds) == Cardinality({i \in DOMAIN rds : ~rds[i].ok})

\* JavaScript truthiness of a number-or-null and of a string-or-null.
truthyNumber(n) == n # NoNumber /\ n[1] # 0

truthyString(str) == str \notin {NULL, ""}

\* (x).toFixed(2) of a non-negative amount: the nearest hundredth.
toFixed2(x) == ((x + 5) \div 10) * 10

\* A total_price key: present with a number or null, or not there at all.
TotalPrice(v) == [defined |-> TRUE, value |-> v]

AbsentTotal == [defined |-> FALSE, value |-> NoNumber]

\* The rows of getPriceForQuantity's first read, before order and limit.
priceQueryRows(rows, productName, printOption, leadTimeType, quantity) ==
    {r \in rows :
        /\ r.product_name = productName
        /\ truthyString(printOption) => r.print_option = printOption
        /\ truthyString(leadTimeType) => r.lead_time_type = leadTimeType
        /\ truthyNumber(quantity) => r.quantity <= quantity[1]}

\* The mutant of orderDescLimit1: the read orders by quantity ascending.
orderAscLimit1(cand) ==
    {r \in cand : \A o \in cand : o.quantity >= r.quantity}

\* .order('quantity', { ascending: false }).limit(1): a row of the largest
\* quantity.
orderDescLimit1(cand) ==
    {r \in cand : \A o \in cand : o.quantity <= r.quantity}

\* The rows of the MOQ read, before limit(1).
moqQueryRows(rows, productName, printOption, leadTimeType) ==
    {r \in rows :
        /\ r.product_name = productName
        /\ r.print_option = (IF truthyString(printOption) THEN printOption ELSE "")
        /\ r.lead_time_type = leadTimeType
        /\ r.is_moq}

\* The mutant of totalPrice: the selected tier's quantity is multiplied.
totalPriceOfTier(tier, quantity) ==
    IF truthyNumber(quantity) THEN Num(toFixed2(tier.unit_price * tier.quantity))
    ELSE NoNumber

\* quantity ? parseFloat((tier.unit_price * quantity).toFixed(2)) : null
totalPrice(tier, quantity) ==
    IF truthyNumber(quantity) THEN Num(toFixed2(tier.unit_price * quantity[1]))
    ELSE NoNumber

tierResult(tier, quantity) ==
    [product_name |-> tier.product_name, print_option |-> tier.print_option,
     lead_time_type |-> tier.lead_time_type, quantity |-> tier.quantity,
     unit_price |-> tier.unit_price, is_moq |-> tier.is_moq,
     requested_quantity |-> quantity,
     total_price |-> TotalPrice(totalPrice(tier, quantity)),
     note |-> NULL]

moqResult(moq, quantity) ==
    [product_name |-> moq.product_name, print_option |-> moq.print_option,
     lead_time_type |-> moq.lead_time_type, quantity |-> moq.quantity,
     unit_price |-> moq.unit_price, is_moq |-> moq.is_moq,
     requested_quantity |-> quantity,
     total_price |-> AbsentTotal,
     note |-> "Minimum order quantity is " \o ToString(moq.quantity)]

getPriceForQuantity(rows, productName, printOption, leadTimeType, quantity) ==
    LET cand == priceQueryRows(rows, productName, printOption, leadTimeType, quantity)
        moqs == moqQueryRows(rows, productName, printOption, leadTimeType)
        tierRead(ok) == Read("getPriceForQuantity", leadTimeType, productName, ok)
        moqRead(ok) == Read("getPriceForQuantity.moq", leadTimeType, productName, ok)
    IN  \* if (error) throw new Error(`Database error: ...`)
        {Outcome(TRUE, <<>>, <<tierRead(FALSE)>>)}
        \cup
        IF cand = {}
        THEN \* if (moqError || !moqData || moqData.length === 0) return null
             {Outcome(FALSE, <<>>, <<tierRead(TRUE), moqRead(FALSE)>>)}
             \cup
             IF moqs = {}
             THEN {Outcome(FALSE, <<>>, <<tierRead(TRUE), moqRead(TRUE)>>)}
             ELSE {Outcome(FALSE, <<moqResult(m, quantity)>>,
                           <<tierRead(TRUE), moqRead(TRUE)>>) : m \in moqs}
        ELSE {Outcome(FALSE, <<tierResult(t, quantity)>>, <<tierRead(TRUE)>>) :
                 t \in orderDescLimit1(cand)}

\* What a direct call of a service leaves: its reads and its return or throw.
CallEnds(o) ==
    /\ reads' = reads \o o.reads
    /\ resp' = IF o.threw THEN Thrown ELSE Returned(o.val)
    /\ pc' = "done"

GetPriceForQuantity ==
    /\ pc = "getPriceForQuantity"
    /\ \E o \in getPriceForQuantity(pricing, req.productName, req.printOption,
                                    req.leadTimeType, req.quantity) :
           CallEnds(o)
    /\ UNCHANGED <<products, pricing, req, found, routeLeadTimeType, attempts, results>>

(***************************************************************************)
(* getPriceForQuantity on its own.  The variant asked for has at most      *)
(* MaxTiers tiers out of the price list of the documentation, or all of    *)
(* it; the import flags the first row of every block is_moq, so a variant  *)
(* with tiers has a flagged tier, and the variant's rows coming in two     *)
(* blocks or out of order leave two flagged tiers or a flagged tier that   *)
(* is not the smallest.  Other variants of the product and another         *)
(* product have tiers of their own.                                        *)
(***************************************************************************)
MaxTiers == 2

PriceList == {30, 40, 50, 100, 500, 1000}

ListPrice(q) ==
    CASE q = 30 -> 4420 [] q = 40 -> 3820 [] q = 50 -> 3460
      [] q = 100 -> 2680 [] q = 500 -> 2010 [] q = 1000 -> 1750
      [] OTHER -> 5000

Variant(p, o, lt, quantities, flagged) ==
    {PricingRow(p, o, lt, q, ListPrice(q), q \in flagged) : q \in quantities}

OtherVariants ==
    Variant("Tote Bag", "No Print", "local", {20}, {20})
    \cup Variant("Tote Bag", "heat transfer", "overseas_air", {25}, {25})
    \cup Variant("Mug", "heat transfer", "local", {15}, {15})

TierCatalogs ==
    {Variant("Tote Bag", "heat transfer", "local", qs, fl) \cup OtherVariants :
        <<qs, fl>> \in {<<x, y>> \in (SUBSET PriceList) \X (SUBSET PriceList) :
                          /\ Cardinality(x) <= MaxTiers
                          /\ y \subseteq x
                          /\ x # {} => y # {}}}
    \cup {Variant("Tote Bag", "heat transfer", "local", PriceList, {30}) \cup OtherVariants}

TierRequests ==
    [op : {"tier"}, productName : {"Tote Bag"}, printOption : {"heat transfer", NULL},
     leadTimeType : {"local", "overseas_air"},
     quantity : {NoNumber, Num(0), Num(10), Num(30), Num(45), Num(475), Num(1000)}]

InitTier ==
    /\ products = <<>>
    /\ pricing \in TierCatalogs
    /\ req \in TierRequests
    /\ pc = "getPriceForQuantity"
    /\ reads = <<>>
    /\ found = <<>>
    /\ routeLeadTimeType = NULL
    /\ attempts = <<>>
    /\ results = <<>>
    /\ resp = NoResponse

NextTier == GetPriceForQuantity

SpecTier == InitTier /\ [][NextTier]_vars

(***************************************************************************)
(* Claims about getPriceForQuantity (checked under SpecTier).              *)
(***************************************************************************)
\* The tiers of exactly the variant the call names.
tierGroup ==
    {r \in pricing : /\ r.product_name = req.productName
                     /\ r.print_option = req.printOption
                     /\ r.lead_time_type = req.leadTimeType}

tierCallReturned == pc = "done" /\ resp.kind = "returned"

\* C3: called with a product, a print option, a delivery class and a
\* quantity q, on a variant with a tier of quantity <= q, getPriceForQuantity
\* returns the tier of the largest quantity <= q of exactly that variant;
\* tiers {30,40,50,100,500,1000} and q = 475 give the quantity-100 tier.
C3_LargestTierAtOrBelow ==
    /\ ( /\ tierCallReturned
         /\ req.printOption # NULL
         /\ req.quantity # NoNumber
         /\ \E r \in tierGroup : r.quantity <= req.quantity[1] )
       => /\ resp.value # <<>>
          /\ \E t \in tierGroup :
                /\ t.quantity <= req.quantity[1]
                /\ \A r \in tierGroup : r.quantity <= req.quantity[1] => r.quantity <= t.quantity
                /\ resp.value[1].product_name = t.product_name
                /\ resp.value[1].print_option = t.print_option
                /\ resp.value[1].lead_time_type = t.lead_time_type
                /\ resp.value[1].quantity = t.quantity
                /\ resp.value[1].unit_price = t.unit_price
    /\ ( /\ tierCallReturned
         /\ req.printOption # NULL
         /\ req.quantity = Num(475)
         /\ {r.quantity : r \in tierGroup} = {30, 40, 50, 100, 500, 1000} )
       => resp.value # <<>> /\ resp.value[1].quantity = 100

\* 475 asked of the six-tier variant: the quantity-100 tier came back.
C3_Witness ==
    /\ tierCallReturned
    /\ req.printOption # NULL
    /\ req.quantity = Num(475)
    /\ Cardinality(tierGroup) = Cardinality(PriceList)
    /\ resp.value # <<>> /\ resp.value[1].quantity = 100

belowEveryTier ==
    /\ req.printOption # NULL
    /\ req.quantity # NoNumber
    /\ req.quantity[1] >= 1
    /\ tierGroup # {}
    /\ \A r \in tierGroup : r.quantity > req.quantity[1]

returnsMoqTier ==
    /\ resp.value # <<>>
    /\ \E m \in tierGroup :
          /\ m.is_moq
          /\ resp.value[1].quantity = m.quantity
          /\ resp.value[1].unit_price = m.unit_price
          /\ resp.value[1].print_option = m.print_option
          /\ resp.value[1].lead_time_type = m.lead_time_type
    /\ resp.value[1].note # NULL
    /\ resp.value[1].requested_quantity = req.quantity
    /\ ~resp.value[1].total_price.defined

\* C4: called with a quantity below every tier of a non-empty variant,
\* getPriceForQuantity returns the variant's is_moq tier with a note that the
\* request is below the minimum, the requested quantity, and no total_price;
\* 10 asked of a variant whose lowest tier is 30 returns the quantity-30 tier.
C4_MoqFallback ==
    /\ (tierCallReturned /\ belowEveryTier) => returnsMoqTier
    /\ ( /\ tierCallReturned /\ belowEveryTier
         /\ req.quantity = Num(10)
         /\ \A r \in tierGroup : r.quantity >= 30
         /\ \A r \in tierGroup : r.is_moq <=> r.quantity = 30 )
       => resp.value # <<>> /\ resp.value[1].quantity = 30

\* The statement of C4 for the calls whose MOQ read the store answered.
MoqFallbackWhenStoreAnswers ==
    ( /\ tierCallReturned /\ belowEveryTier
      /\ \A i \in DOMAIN reads : reads[i].ok )
    => /\ returnsMoqTier
       /\ ( /\ req.quantity = Num(10)
            /\ \A r \in tierGroup : r.is_moq <=> r.quantity = 30 )
          => resp.value[1].quantity = 30

\* The tiers of the product in the delivery class asked, of the print option
\* asked when one is given.
tiersAsked ==
    {r \in pricing : /\ r.product_name = req.productName
                     /\ r.lead_time_type = req.leadTimeType
                     /\ req.printOption # NULL => r.print_option = req.printOption}

\* C12: getPriceForQuantity returns null only when the (product, print
\* option, delivery class) group has no tier; for a group with a tier it
\* returns a result whatever the requested quantity.
C12_NullOnlyForEmptyGroup ==
    (tierCallReturned /\ tiersAsked # {}) => resp.value # <<>>

(***************************************************************************)
(* matchPrintOption                                                        *)
(***************************************************************************)
RECURSIVE skipSpaces(_, _)
skipSpaces(s, i) ==
    IF i <= Len(s) /\ IsSpace(CharAt(s, i)) THEN skipSpaces(s, i + 1) ELSE i

\* The match of /(\d)c\s*x\s*(\d)c/ that starts at position i of a case-folded
\* string: its two digits, or <<>>.
colorMatchAt(s, i) ==
    IF i + 1 <= Len(s) /\ IsDigit(CharAt(s, i)) /\ CharAt(s, i + 1) = "c"
    THEN LET j == skipSpaces(s, i + 2) IN
         IF j <= Len(s) /\ CharAt(s, j) = "x"
         THEN LET k == skipSpaces(s, j + 1) IN
              IF k + 1 <= Len(s) /\ IsDigit(CharAt(s, k)) /\ CharAt(s, k + 1) = "c"
              THEN <<CharAt(s, i), CharAt(s, k)>>
              ELSE <<>>
         ELSE <<>>
    ELSE <<>>

\* str.toLowerCase().match(/(\d)c\s*x\s*(\d)c/i): the leftmost match.
colorMatch(str) ==
    LET s == toLowerCase(str)
        at == {i \in 1..Len(s) : colorMatchAt(s, i) # <<>>}
    IN  IF at = {} THEN <<>>
        ELSE colorMatchAt(s, CHOOSE i \in at : \A j \in at : i <= j)

\* `${front}c x ${back}c`
colorPattern(m) == m[1] \o "c x " \o m[2] \o "c"

\* Array.prototype.find, given the elements that pass the test in their order:
\* the first of them, as <<element>>, or <<>>.
findFirst(passing) == IF passing = <<>> THEN <<>> ELSE <<passing[1]>>

mappings ==
    << [patterns |-> <<"no print", "plain", "blank", "without print">>, match |-> "no print"],
       [patterns |-> <<"1 color", "one color", "single color", "1 colour">>, match |-> "1c x 0c"],
       [patterns |-> <<"2 color", "two color", "2 colour">>, match |-> "2c x 0c"],
       [patterns |-> <<"full color", "full colour", "multicolor">>, match |-> "heat transfer"],
       [patterns |-> <<"heat transfer">>, match |-> "heat transfer"],
       [patterns |-> <<"silkscreen", "silk screen", "screen print">>, match |-> "silkscreen"],
       [patterns |-> <<"embroidery", "embroid">>, match |-> "embroidery"],
       [patterns |-> <<"laser", "engrave", "engraving">>, match |-> "laser"],
       [patterns |-> <<"uv print", "uv">>, match |-> "uv"],
       [patterns |-> <<"deboss", "debossing">>, match |-> "deboss"] >>

\* return availableOptions[0]
defaultOption(availableOptions) == <<availableOptions[1]>>

\* The mutant of firstMapping: the last of the rules that match is taken.
lastMapping(matching) == CHOOSE m \in matching : \A n \in matching : n <= m

\* for (const mapping of mappings) { ... return matched }: of the rules that
\* are triggered and have an option, the loop returns at the first.
firstMapping(matching) == CHOOSE m \in matching : \A n \in matching : m <= n

\* The mutant of directMatch: no option is a direct match.
directMatchNever(opt, normalizedInput) == FALSE

\* opt.toLowerCase().includes(normalizedInput) ||
\* normalizedInput.includes(opt.toLowerCase())
directMatch(opt, normalizedInput) ==
    \/ includes(toLowerCase(opt), normalizedInput)
    \/ includes(normalizedInput, toLowerCase(opt))

\* matchPrintOption once the read has answered with at least one row:
\* availableOptions are the distinct print options in the order of the rows.
matchAvailableOption(availableOptions, userInput) ==
    LET normalizedInput == trim(toLowerCase(userInput))
        cm == colorMatch(normalizedInput)
        exactColorMatch ==
            IF cm = <<>> THEN <<>>
            ELSE findFirst(SelectSeq(availableOptions, LAMBDA opt :
                     includes(toLowerCase(opt), toLowerCase(colorPattern(cm)))))
        optionFor(m) ==
            findFirst(SelectSeq(availableOptions, LAMBDA opt :
                includes(toLowerCase(opt), toLowerCase(mappings[m].match))))
        triggered(m) ==
            \E k \in DOMAIN mappings[m].patterns :
                includes(normalizedInput, mappings[m].patterns[k])
        winning == {m \in DOMAIN mappings : triggered(m) /\ optionFor(m) # <<>>}
        direct ==
            findFirst(SelectSeq(availableOptions, LAMBDA opt :
                directMatch(opt, normalizedInput)))
    IN  IF exactColorMatch # <<>> THEN exactColorMatch
        ELSE IF winning # {}
             THEN optionFor(firstMapping(winning))
             ELSE IF direct # <<>> THEN direct
                  ELSE defaultOption(availableOptions)

\* The orders in which the store may return the distinct values of S.
Orderings(S) == {q \in Arrangements(S, Cardinality(S)) : Len(q) = Cardinality(S)}

printOptionRows(rows, productName, leadTimeType) ==
    {r \in rows : r.product_name = productName /\ r.lead_time_type = leadTimeType}

matchPrintOption(rows, productName, userInput, leadTimeType) ==
    LET data == printOptionRows(rows, productName, leadTimeType)
        optionRead(ok) == Read("matchPrintOption", leadTimeType, productName, ok)
    IN  \* if (error || !data || data.length === 0) return null
        {Outcome(FALSE, <<>>, <<optionRead(FALSE)>>)}
        \cup
        IF data = {}
        THEN {Outcome(FALSE, <<>>, <<optionRead(TRUE)>>)}
        ELSE {Outcome(FALSE, matchAvailableOption(availableOptions, userInput),
                      <<optionRead(TRUE)>>) :
                 availableOptions \in Orderings({r.print_option : r \in data})}

MatchPrintOption ==
    /\ pc = "matchPrintOption"
    /\ \E o \in matchPrintOption(pricing, req.productName, req.userInput, req.leadTimeType) :
           CallEnds(o)
    /\ UNCHANGED <<products, pricing, req, found, routeLeadTimeType, attempts, results>>

(***************************************************************************)
(* matchPrintOption on its own: the product has, for the class asked, at   *)
(* most MaxOptions of the print options below, and one for another class.  *)
(***************************************************************************)
MaxOptions == 2

PrintOptions ==
    {"No Print", "silkscreen print - 1c x 0c", "silkscreen print - 2c x 1c",
     "heat transfer", "embroidery"}

UserInputs ==
    {"2c x 1c", "Silkscreen 1C X 0C", "plain", "full color", "heat transfer",
     "silk screen", "laser", "print", "2 color", "xyz",
     "full color embroidery", "plain silkscreen"}

PrintCatalogs ==
    {UNION {Variant("Tote Bag", o, "local", {30}, {30}) : o \in opts}
        \cup Variant("Tote Bag", "uv print", "overseas_sea", {30}, {30}) :
     opts \in {x \in SUBSET PrintOptions : Cardinality(x) <= MaxOptions}}

InitPrint ==
    /\ products = <<>>
    /\ pricing \in PrintCatalogs
    /\ req \in [op : {"print"}, productName : {"Tote Bag"}, userInput : UserInputs,
                leadTimeType : {"local", "overseas_sea"}]
    /\ pc = "matchPrintOption"
    /\ reads = <<>>
    /\ found = <<>>
    /\ routeLeadTimeType = NULL
    /\ attempts = <<>>
    /\ results = <<>>
    /\ resp = NoResponse

NextPrint == MatchPrintOption

SpecPrint == InitPrint /\ [][NextPrint]_vars

(***************************************************************************)
(* Claims about matchPrintOption (checked under SpecPrint).                *)
(***************************************************************************)
recordedOptions ==
    {r.print_option : r \in printOptionRows(pricing, req.productName, req.leadTimeType)}

printCallReturned == pc = "done" /\ resp.kind = "returned"

\* C8: matchPrintOption returns null if and only if no print option is
\* recorded for the product and delivery class; otherwise it returns one of
\* the options recorded for them, whatever the user text.
C8_RecordedOptionOrNull ==
    printCallReturned =>
        /\ resp.value = <<>> <=> recordedOptions = {}
        /\ resp.value # <<>> => resp.value[1] \in recordedOptions

\* The statement of C8 for the calls whose read the store answered.
RecordedOptionWhenStoreAnswers ==
    (printCallReturned /\ \A i \in DOMAIN reads : reads[i].ok) =>
        /\ resp.value = <<>> <=> recordedOptions = {}
        /\ resp.value # <<>> => resp.value[1] \in recordedOptions

\* The call returned after the store answered its read with rows.
printCallAnswered ==
    /\ printCallReturned
    /\ \A i \in DOMAIN reads : reads[i].ok
    /\ recordedOptions # {}

userText == trim(toLowerCase(req.userInput))

\* The recorded options that contain a text, ignoring case.
optionsWith(text) == {o \in recordedOptions : includes(toLowerCase(o), toLowerCase(text))}

\* The colour notation of the user text, normalized, and whether a recorded
\* option contains it.
userNotation == colorMatch(userText)

notationRecorded == userNotation # <<>> /\ optionsWith(colorPattern(userNotation)) # {}

\* The keyword rules with a trigger phrase in the user text and a target in
\* some recorded option.
applicableRules ==
    {m \in DOMAIN mappings :
        /\ \E k \in DOMAIN mappings[m].patterns : includes(userText, mappings[m].patterns[k])
        /\ optionsWith(mappings[m].match) # {}}

\* The first of them in the order of the table.
winningRule == CHOOSE m \in applicableRules : \A n \in applicableRules : m <= n

\* C22: when the keyword rules decide (no recorded option has the colour
\* notation of the text), the result is a recorded option containing the
\* target of the first rule, top to bottom, whose trigger is in the text and
\* whose target is in a recorded option; rules without a recorded target
\* are skipped and later rules do not override it.
C22_FirstApplicableRuleWins ==
    (printCallAnswered /\ ~notationRecorded /\ applicableRules # {}) =>
        /\ resp.value # <<>>
        /\ resp.value[1] \in optionsWith(mappings[winningRule].match)

\* "full color embroidery" triggers the rules of heat transfer and of
\* embroidery, both recorded: the earlier rule decides.
C22_Witness ==
    /\ printCallAnswered
    /\ req.userInput = "full color embroidery"
    /\ recordedOptions = {"heat transfer", "embroidery"}
    /\ Cardinality(applicableRules) = 2
    /\ resp.value = <<"heat transfer">>

\* "plain silkscreen": the rule of "no print" is triggered and has no
\* recorded target, and the rule of silkscreen decides.
RuleWithoutTargetSkipped ==
    /\ printCallAnswered
    /\ req.userInput = "plain silkscreen"
    /\ recordedOptions = {"silkscreen print - 1c x 0c", "heat transfer"}
    /\ resp.value = <<"silkscreen print - 1c x 0c">>

\* The recorded options that contain the user text or are contained in it.
directOptions ==
    {o \in recordedOptions :
        includes(toLowerCase(o), userText) \/ includes(userText, toLowerCase(o))}

\* C23: the steps of matchPrintOption are in strict priority: a recorded
\* option with the colour notation of the text, else an option of a keyword
\* rule, else a direct substring match, else the default option.
C23_StepsInPriority ==
    printCallAnswered =>
        /\ resp.value # <<>>
        /\ IF notationRecorded
           THEN resp.value[1] \in optionsWith(colorPattern(userNotation))
           ELSE IF applicableRules # {}
                THEN \E m \in applicableRules : resp.value[1] \in optionsWith(mappings[m].match)
                ELSE IF directOptions # {}
                     THEN resp.value[1] \in directOptions
                     ELSE resp.value[1] \in recordedOptions

\* "print" has no colour notation and triggers no rule; "No Print" contains
\* it and "heat transfer" does not: the direct match is returned, in
\* whichever order the store returned the two options.
C23_Witness ==
    /\ printCallAnswered
    /\ req.userInput = "print"
    /\ recordedOptions = {"heat transfer", "No Print"}
    /\ resp.value = <<"No Print">>

\* "Silkscreen 1C X 0C": the option with the notation is returned although
\* the rule of silkscreen has another option as well.
NotationBeforeKeyword ==
    /\ printCallAnswered
    /\ req.userInput = "Silkscreen 1C X 0C"
    /\ recordedOptions = {"silkscreen print - 1c x 0c", "silkscreen print - 2c x 1c"}
    /\ resp.value = <<"silkscreen print - 1c x 0c">>

(***************************************************************************)
(* getAllPricingTiers, getPricingForProducts, getAlternatives,             *)
(* getProductSuggestions                                                   *)
(***************************************************************************)
\* .order('quantity', { ascending: true }): the rows in an order the sort allows.
sortedByQuantity(S) ==
    {q \in Orderings(S) : \A i, j \in DOMAIN q : i < j => q[i].quantity <= q[j].quantity}

\* The mutant of leadTimeOf: the class reported is the default one.
leadTimeLocal(firstRow) == "local"

\* lead_time: { type: firstRow.lead_time_type, ... }
leadTimeOf(firstRow) == firstRow.lead_time_type

getAllPricingTiers(rows, productName, printOption, leadTimeType) ==
    LET data == {r \in rows :
                    /\ r.product_name = productName
                    /\ truthyString(printOption) => r.print_option = printOption
                    /\ truthyString(leadTimeType) => r.lead_time_type = leadTimeType}
        tiersRead(ok) == Read("getAllPricingTiers", leadTimeType, productName, ok)
    IN  {Outcome(TRUE, <<>>, <<tiersRead(FALSE)>>)}
        \cup
        IF data = {}
        THEN {Outcome(FALSE, <<>>, <<tiersRead(TRUE)>>)}
        ELSE {Outcome(FALSE,
                      << [lead_time |-> [type |-> leadTimeOf(q[1])],
                          tiers |-> [i \in DOMAIN q |->
                                        [quantity |-> q[i].quantity,
                                         unit_price |-> q[i].unit_price,
                                         is_moq |-> q[i].is_moq]]] >>,
                      <<tiersRead(TRUE)>>) :
                 q \in sortedByQuantity(data)}

\* The mutant of keepsWantedPattern: the matched option is kept whatever it is.
keepsAnyOption(selectedPrintOption, printOption) == TRUE

\* Lines 339-347: a matched option stays unless the user wrote a colour
\* notation that it does not contain.
keepsWantedPattern(selectedPrintOption, printOption) ==
    LET userColorMatch == colorMatch(toLowerCase(printOption)) IN
    \/ userColorMatch = <<>>
    \/ includes(toLowerCase(selectedPrintOption), toLowerCase(colorPattern(userColorMatch)))

\* Lines 321-349: the print option selected for a candidate (<<>> for
\* null), with the read issued.
selectPrintOption(rows, productName, printOption, leadTimeType) ==
    IF ~truthyString(printOption)
    THEN LET options == {r.print_option : r \in printOptionRows(rows, productName, leadTimeType)}
             optionsRead(ok) == Read("getPricingForProducts.options", leadTimeType, productName, ok)
         IN  {[selected |-> <<>>, reads |-> <<optionsRead(FALSE)>>]}
             \cup
             IF options = {}
             THEN {[selected |-> <<>>, reads |-> <<optionsRead(TRUE)>>]}
             ELSE {[selected |-> <<o>>, reads |-> <<optionsRead(TRUE)>>] : o \in options}
    ELSE {[selected |-> IF m.val # <<>> /\ ~keepsWantedPattern(m.val[1], printOption)
                        THEN <<>> ELSE m.val,
           reads |-> m.reads] :
             m \in matchPrintOption(rows, productName, printOption, leadTimeType)}

\* The mutant of lowestTier: the read orders by quantity descending.
highestTier(cand) == {r \in cand : \A o \in cand : r.quantity >= o.quantity}

\* .order('quantity', { ascending: true }).limit(1): a row of the smallest quantity.
lowestTier(cand) == {r \in cand : \A o \in cand : r.quantity <= o.quantity}

\* Lines 374-388: the moq of the quote (<<>> for null), with the read issued.
moqOfVariant(rows, productName, selectedPrintOption, leadTimeType) ==
    LET data == {r \in rows :
                    /\ r.product_name = productName
                    /\ r.print_option = selectedPrintOption
                    /\ r.lead_time_type = leadTimeType}
        moqRead(ok) == Read("getPricingForProducts.moq", leadTimeType, productName, ok)
    IN  {[moq |-> <<>>, reads |-> <<moqRead(FALSE)>>]}
        \cup
        IF data = {}
        THEN {[moq |-> <<>>, reads |-> <<moqRead(TRUE)>>]}
        ELSE {[moq |-> << [quantity |-> r.quantity, unit_price |-> r.unit_price] >>,
               reads |-> <<moqRead(TRUE)>>] : r \in lowestTier(data)}

\* Lines 403-417.  The catalog records no dimensions, so the read of lines
\* 393-397 is issued for every quote and changes nothing in it.
Quote(product, selectedPrintOption, price, allTiers, moq, quantity) ==
    [product_name |-> product.name,
     category |-> product.category,
     print_option |-> selectedPrintOption,
     lead_time |-> IF allTiers = <<>> THEN <<>> ELSE <<allTiers[1].lead_time>>,
     requested_quantity |-> quantity,
     unit_price |-> price.unit_price,
     total_price |-> price.total_price,
     moq |-> moq,
     all_tiers |-> IF allTiers = <<>> THEN <<>> ELSE allTiers[1].tiers]

\* Lines 319-418: what the callback of Promise.all makes of one candidate.
resolveCandidate(rows, product, quantity, printOption, leadTimeType) ==
    LET dimensionsRead(ok) ==
            Read("getPricingForProducts.dimensions", leadTimeType, product.name, ok)
        quoted(s, p, t) ==
            {Outcome(FALSE,
                     <<Quote(product, s.selected[1], p.val[1], t.val, m.moq, quantity)>>,
                     s.reads \o p.reads \o t.reads \o m.reads \o <<dimensionsRead(ok)>>) :
                m \in moqOfVariant(rows, product.name, s.selected[1], leadTimeType),
                ok \in BOOLEAN}
        tiered(s, p) ==
            UNION {IF t.threw
                   THEN {Outcome(TRUE, <<>>, s.reads \o p.reads \o t.reads)}
                   ELSE quoted(s, p, t) :
                      t \in getAllPricingTiers(rows, product.name, s.selected[1], leadTimeType)}
        priced(s) ==
            UNION {IF p.threw
                   THEN {Outcome(TRUE, <<>>, s.reads \o p.reads)}
                   ELSE IF p.val = <<>>
                        THEN {Outcome(FALSE, <<>>, s.reads \o p.reads)}
                        ELSE tiered(s, p) :
                      p \in getPriceForQuantity(rows, product.name, s.selected[1],
                                                leadTimeType, quantity)}
    IN  UNION {IF s.selected = <<>> \/ ~truthyString(s.selected[1])
               THEN {Outcome(FALSE, <<>>, s.reads)}
               ELSE priced(s) :
                  s \in selectPrintOption(rows, product.name, printOption, leadTimeType)}

\* The store fails at most MaxFailures of the reads of one request; an
\* outcome with more failed reads is left out as soon as it is built.
MaxFailures == 1

withinBudget(outcomes) == {o \in outcomes : failures(o.reads) <= MaxFailures}

\* Promise.all over the candidates from the i-th on: it rejects when one
\* callback throws, and otherwise gives the quotes that are not null.
RECURSIVE promiseAll(_, _, _, _, _, _)
promiseAll(rows, candidates, i, quantity, printOption, leadTimeType) ==
    IF i > Len(candidates) THEN {Outcome(FALSE, <<>>, <<>>)}
    ELSE withinBudget(
           {Outcome(a.threw \/ b.threw,
                    IF a.threw \/ b.threw THEN <<>> ELSE a.val \o b.val,
                    a.reads \o b.reads) :
               a \in withinBudget(resolveCandidate(rows, candidates[i], quantity,
                                                   printOption, leadTimeType)),
               b \in promiseAll(rows, candidates, i + 1, quantity, printOption, leadTimeType)})

\* Lines 263-316: productsToProcess, with the reads issued.
productsToProcess(rows, matched, printOption, leadTimeType) ==
    LET given == [i \in DOMAIN matched |->
                     [name |-> matched[i].name, category |-> matched[i].category]]
        userColorMatch == colorMatch(toLowerCase(printOption))
        searchPattern == IF userColorMatch # <<>> THEN colorPattern(userColorMatch)
                         ELSE printOption
        hasOption(r) == /\ r.lead_time_type = leadTimeType
                        /\ ilike(r.print_option, "%" \o searchPattern \o "%")
        matchingNames == {r.product_name : r \in
                             {x \in rows : hasOption(x) /\
                                 \E i \in DOMAIN given : given[i].name = x.product_name}}
        broaderNames == {r.product_name : r \in {x \in rows : hasOption(x)}}
        searchTerms == SelectSeq(splitSpace(matched[1].name), LAMBDA w : Len(w) > 2)
        relevantProducts ==
            {name \in broaderNames :
                \E k \in DOMAIN searchTerms :
                    includes(toLowerCase(name), toLowerCase(searchTerms[k]))}
        preFilterRead(ok) == Read("getPricingForProducts.preFilter", leadTimeType, NULL, ok)
        broaderRead(ok) == Read("getPricingForProducts.broader", leadTimeType, NULL, ok)
        broadened(pre) ==
            {[candidates |-> given, reads |-> <<pre, broaderRead(FALSE)>>]}
            \cup
            IF relevantProducts = {}
            THEN {[candidates |-> given, reads |-> <<pre, broaderRead(TRUE)>>]}
            ELSE {[candidates |-> [i \in DOMAIN q |-> [name |-> q[i], category |-> NULL]],
                   reads |-> <<pre, broaderRead(TRUE)>>] :
                     q \in Orderings(relevantProducts)}
    IN  IF ~truthyString(printOption)
        THEN {[candidates |-> given, reads |-> <<>>]}
        ELSE broadened(preFilterRead(FALSE))
             \cup
             IF matchingNames = {}
             THEN broadened(preFilterRead(TRUE))
             ELSE {[candidates |-> SelectSeq(given, LAMBDA c : c.name \in matchingNames),
                    reads |-> <<preFilterRead(TRUE)>>]}

getPricingForProducts(rows, matched, quantity, printOption, leadTimeType) ==
    IF Len(matched) = 0 THEN {Outcome(FALSE, <<>>, <<>>)}
    ELSE UNION {{Outcome(o.threw, o.val, c.reads \o o.reads) :
                    o \in promiseAll(rows, c.candidates, 1, quantity, printOption, leadTimeType)} :
                c \in productsToProcess(rows, matched, printOption, leadTimeType)}

\* getAlternatives never throws: a read that fails is an empty answer.
getAlternatives(rows, prods, productName, quantity, limit) ==
    LET current == SelectSeq(prods, LAMBDA r : r.name = productName)
        others == IF Len(current) # 1 THEN <<>>
                  ELSE limitTo(SelectSeq(prods, LAMBDA r :
                           r.category = current[1].category /\ r.name # productName), limit)
        currentRead(ok) == Read("getAlternatives.category", NULL, productName, ok)
        othersRead(ok) == Read("getAlternatives.others", NULL, productName, ok)
        priceRead(name, ok) == Read("getAlternatives.pricing", "local", name, ok)
        ceiling == IF truthyNumber(quantity) THEN quantity[1] ELSE 100
        priceOf(name) ==
            {Outcome(FALSE, <<>>, <<priceRead(name, FALSE)>>)}
            \cup
            LET cand == {r \in rows : /\ r.product_name = name
                                      /\ r.lead_time_type = "local"
                                      /\ r.quantity <= ceiling}
            IN  IF cand = {}
                THEN {Outcome(FALSE, <<>>, <<priceRead(name, TRUE)>>)}
                ELSE {Outcome(FALSE,
                              << [product_name |-> name, print_option |-> r.print_option,
                                  unit_price_at_qty |-> r.unit_price] >>,
                              <<priceRead(name, TRUE)>>) : r \in orderDescLimit1(cand)}
        each[i \in 0..Len(others)] ==
            IF i = 0 THEN {Outcome(FALSE, <<>>, <<>>)}
            ELSE {Outcome(FALSE, a.val \o b.val, a.reads \o b.reads) :
                     a \in each[i - 1], b \in priceOf(others[i].name)}
    IN  {Outcome(FALSE, <<>>, <<currentRead(FALSE)>>)}
        \cup
        IF Len(current) # 1
        THEN {Outcome(FALSE, <<>>, <<currentRead(TRUE)>>)}
        ELSE {Outcome(FALSE, <<>>, <<currentRead(TRUE), othersRead(FALSE)>>)}
             \cup
             IF Len(others) = 0
             THEN {Outcome(FALSE, <<>>, <<currentRead(TRUE), othersRead(TRUE)>>)}
             ELSE {Outcome(FALSE, o.val, <<currentRead(TRUE), othersRead(TRUE)>> \o o.reads) :
                      o \in each[Len(others)]}

getProductSuggestions(prods, query, limit) ==
    IF ~truthyString(query) \/ Len(trim(query)) < 2
    THEN {Outcome(FALSE, <<>>, <<>>)}
    ELSE LET data == limitTo(SelectSeq(prods, LAMBDA r :
                         ilike(r.name, "%" \o trim(query) \o "%")), limit)
             suggestRead(ok) == Read("getProductSuggestions", NULL, NULL, ok)
         IN  {Outcome(TRUE, <<>>, <<suggestRead(FALSE)>>),
              Outcome(FALSE, [i \in DOMAIN data |-> data[i].name], <<suggestRead(TRUE)>>)}

(***************************************************************************)
(* POST /api/price/query                                                   *)
(***************************************************************************)
\* Step 3: the delivery class of parsedQuery.lead_time.
mapLeadTime(lead_time) ==
    IF ~truthyString(lead_time) THEN "local"
    ELSE LET lt == toLowerCase(lead_time) IN
         IF includes(lt, "overseas") \/ includes(lt, "sea")
         THEN IF includes(lt, "air") THEN "overseas_air" ELSE "overseas_sea"
         ELSE "local"

\* The mutant of fallsBack: an empty result is retried whatever class was asked.
fallsBackAlways(firstClass) == TRUE

\* if (results.length === 0 && leadTimeType === 'local')
fallsBack(firstClass) == firstClass = "local"

\* The class the route retries with after the calls made so far came back
\* empty, as <<class>>, or <<>> when it retries no more.
nextLeadTimeType(tried) ==
    IF Len(tried) = 1 /\ fallsBack(tried[1].leadTimeType) THEN <<"overseas_air">>
    ELSE IF Len(tried) = 2 THEN <<"overseas_sea">>
         ELSE <<>>

\* Lines 61-82.  The parser is a language model behind an API: it answers
\* with the parsed fields the request carries, or it fails.
ParseQuery ==
    /\ pc = "parseQuery"
    /\ IF ~truthyString(req.query)
       THEN /\ resp' = httpError(400, "MISSING_PARAMETERS")
            /\ pc' = "done"
       ELSE \E parsed \in BOOLEAN :
               IF parsed
               THEN pc' = "searchProducts" /\ UNCHANGED resp
               ELSE resp' = httpError(400, "INVALID_QUERY") /\ pc' = "done"
    /\ UNCHANGED <<products, pricing, req, reads, found, routeLeadTimeType, attempts, results>>

\* The mutant of noMatchMessage: the response carries no message.
noMatchMessageNone(suggestions) == NULL

\* Lines 103-105: the message of the response when no product matched.
noMatchMessage(suggestions) ==
    IF Len(suggestions) > 0
    THEN "No exact matches found. Did you mean one of these products?"
    ELSE "No matching products found"

\* Lines 87-108: no product matched.
NoMatches ==
    /\ pc = "searched"
    /\ Len(found) = 0
    /\ \E o \in getProductSuggestions(products, searchQuery, 5) :
          /\ reads' = reads \o o.reads
          /\ resp' = IF o.threw THEN serviceError
                      ELSE [httpOk(<<>>, <<>>, o.val) EXCEPT
                               !.meta_message = noMatchMessage(o.val)]
    /\ pc' = "done"
    /\ UNCHANGED <<products, pricing, req, found, routeLeadTimeType, attempts, results>>

\* Lines 116-123.
MapLeadTime ==
    /\ pc = "searched"
    /\ Len(found) > 0
    /\ routeLeadTimeType' = mapLeadTime(req.lead_time)
    /\ pc' = "getPricingForProducts"
    /\ UNCHANGED <<products, pricing, req, reads, found, attempts, results, resp>>

\* Lines 126-155: one call of getPricingForProducts and what the route does
\* with its result.
GetPricingForProducts ==
    /\ pc = "getPricingForProducts"
    /\ \E o \in getPricingForProducts(pricing, found, req.quantity, req.print_option,
                                      routeLeadTimeType) :
          /\ failures(reads \o o.reads) <= MaxFailures
          /\ reads' = reads \o o.reads
          /\ IF o.threw
             THEN /\ resp' = serviceError
                  /\ pc' = "done"
                  /\ UNCHANGED <<routeLeadTimeType, attempts, results>>
             ELSE LET tried == Append(attempts, [leadTimeType |-> routeLeadTimeType,
                                                 results |-> Len(o.val)])
                      next == nextLeadTimeType(tried)
                  IN  /\ results' = o.val
                      /\ attempts' = tried
                      /\ IF Len(o.val) = 0 /\ next # <<>>
                         THEN /\ routeLeadTimeType' = next[1]
                              /\ pc' = "getPricingForProducts"
                         ELSE /\ pc' = "getAlternatives"
                              /\ UNCHANGED routeLeadTimeType
                      /\ UNCHANGED resp
    /\ UNCHANGED <<products, pricing, req, found>>

\* Lines 168-197: the alternatives and the response.
GetAlternatives ==
    /\ pc = "getAlternatives"
    /\ IF Len(results) = 0
       THEN /\ resp' = httpOk(results, <<>>, <<>>)
            /\ UNCHANGED reads
       ELSE \E o \in getAlternatives(pricing, products, results[1].product_name,
                                     IF truthyNumber(req.quantity) THEN req.quantity
                                     ELSE Num(100), 3) :
               /\ failures(reads \o o.reads) <= MaxFailures
               /\ reads' = reads \o o.reads
               /\ resp' = httpOk(results, o.val, <<>>)
    /\ pc' = "done"
    /\ UNCHANGED <<products, pricing, req, found, routeLeadTimeType, attempts, results>>

(***************************************************************************)
(* The requests and the catalogs of the /query route.  The products table  *)
(* has three products; the pricing table has at most MaxGroups variants,   *)
(* each with the tiers 30 (flagged is_moq by the import) and 100.          *)
(***************************************************************************)
MaxGroups == 2

QueryProducts == <<ProductRow("Tote Bag"), ProductRow("Canvas Tote Bag"), ProductRow("Mug")>>

QueryGroups ==
    ({"Tote Bag"} \X {"silkscreen print - 1c x 0c", "silkscreen print - 2c x 1c",
                      "heat transfer"} \X {"local", "overseas_sea"})
    \cup ({"Tote Bag"} \X {"heat transfer"} \X {"overseas_air"})
    \cup ({"Canvas Tote Bag"} \X {"silkscreen print - 2c x 1c"} \X {"local", "overseas_sea"})

QueryCatalogs ==
    {UNION {Variant(g[1], g[2], g[3], {30, 100}, {30}) : g \in groups} :
        groups \in {x \in SUBSET QueryGroups : Cardinality(x) <= MaxGroups}}

QueryRequests ==
    [op : {"query"}, query : {"text"}, product : {"Tote Bag"},
     quantity : {Num(10), Num(50)}, print_option : {NULL, "2C x 1c"},
     lead_time : {NULL, "overseas air", "overseas"}]
    \cup
    [op : {"query"}, query : {"text"}, product : {"tote"},
     quantity : {Num(50)}, print_option : {NULL, "2C x 1c"},
     lead_time : {NULL, "overseas"}]
    \cup
    [op : {"query"}, query : {"text"}, product : {"Tote Bag"},
     quantity : {NoNumber, Num(0), Num(50)}, print_option : {NULL, "full color"},
     lead_time : {NULL}]
    \cup
    [op : {"query"}, query : {"text", NULL}, product : {"zzz", NULL},
     quantity : {NoNumber}, print_option : {NULL}, lead_time : {NULL}]

Init ==
    /\ products = QueryProducts
    /\ pricing \in QueryCatalogs
    /\ req \in QueryRequests
    /\ pc = "parseQuery"
    /\ reads = <<>>
    /\ found = <<>>
    /\ routeLeadTimeType = NULL
    /\ attempts = <<>>
    /\ results = <<>>
    /\ resp = NoResponse

Next ==
    \/ ParseQuery
    \/ SearchStart
    \/ SearchExact
    \/ SearchExactInsensitive
    \/ SearchFuzzy
    \/ NoMatches
    \/ MapLeadTime
    \/ GetPricingForProducts
    \/ GetAlternatives

Spec == Init /\ [][Next]_vars

(***************************************************************************)
(* Claims about the /query route (checked under Spec).                     *)
(***************************************************************************)
requestedClass == mapLeadTime(req.lead_time)

Priority == <<"local", "overseas_air", "overseas_sea">>

triedClasses == [i \in DOMAIN attempts |-> attempts[i].leadTimeType]

isPrefix(a, b) == Len(a) <= Len(b) /\ \A i \in DOMAIN a : a[i] = b[i]

answered200 == pc = "done" /\ resp.kind = "http" /\ resp.status = 200

\* The route is past its calls of getPricingForProducts.
pricingFinished == Len(attempts) > 0 /\ (pc = "getAlternatives" \/ answered200)

lastAttempt == attempts[Len(attempts)]

\* C5 as the specification states it: whatever class is requested, an empty
\* result is retried with the remaining classes in the order local,
\* overseas_air, overseas_sea, the first non-empty result is returned, and no
\* class is queried after one that produced a result.
C5_RetriesRemainingClasses ==
    /\ isPrefix(triedClasses,
                <<requestedClass>> \o SelectSeq(Priority, LAMBDA c : c # requestedClass))
    /\ \A i \in DOMAIN attempts : i < Len(attempts) => attempts[i].results = 0
    /\ pricingFinished =>
          /\ Len(results) = lastAttempt.results
          /\ lastAttempt.results = 0 => Len(attempts) = 3

\* C5, amended: when the requested class is local (the default) an empty
\* result is retried with overseas_air and then overseas_sea, the first
\* non-empty result is the one returned, and no class is queried after one
\* that produced a result; when overseas_air or overseas_sea is requested no
\* other class is tried.
C5_FallbackFromLocalOnly ==
    /\ isPrefix(triedClasses,
                IF requestedClass = "local" THEN Priority ELSE <<requestedClass>>)
    /\ \A i \in DOMAIN attempts : i < Len(attempts) => attempts[i].results = 0
    /\ pricingFinished =>
          /\ Len(results) = lastAttempt.results
          /\ (requestedClass = "local" /\ lastAttempt.results = 0) => Len(attempts) = 3
    /\ (answered200 /\ Len(attempts) > 0) => resp.results = results

C5_Witness ==
    /\ answered200
    /\ requestedClass = "local"
    /\ triedClasses = Priority
    /\ Len(resp.results) > 0
    /\ failures(reads) = 0

quoteRows(q, class) ==
    {r \in pricing : /\ r.product_name = q.product_name
                     /\ r.print_option = q.print_option
                     /\ r.lead_time_type = class}

wantedNotation ==
    IF truthyString(req.print_option) THEN colorMatch(req.print_option) ELSE <<>>

recordedFor(productName) == {r.print_option : r \in {x \in pricing : x.product_name = productName}}

\* C7: when the requested print option holds a colour notation, every quote
\* has a print option, recorded for its product, that contains the normalized
\* notation; a matched product none of whose options contains it has no quote.
C7_ColourNotationKept ==
    wantedNotation # <<>> =>
        /\ \A i \in DOMAIN results :
              /\ includes(toLowerCase(results[i].print_option), colorPattern(wantedNotation))
              /\ results[i].print_option \in recordedFor(results[i].product_name)
        /\ \A j \in DOMAIN found :
              (\A o \in recordedFor(found[j].name) :
                  ~includes(toLowerCase(o), colorPattern(wantedNotation)))
              => \A i \in DOMAIN results : results[i].product_name # found[j].name

C7_Witness ==
    /\ answered200
    /\ req.product = "Tote Bag"
    /\ req.print_option = "2C x 1c"
    /\ recordedFor("Tote Bag") = {"silkscreen print - 1c x 0c", "heat transfer"}
    /\ Len(attempts) = 3
    /\ resp.results = <<>>
    /\ failures(reads) = 0

\* C9: once a store read has failed while a /query request is resolved, the
\* request is answered with the infrastructure error.
C9_FailurePropagates ==
    (req.op = "query" /\ pc = "done" /\ failures(reads) > 0) =>
        resp = httpError(500, "DATABASE_ERROR")

\* C10 as the specification states it: every quote with a non-null requested
\* quantity has total_price = round2(unit_price * requested quantity).
C10_TotalIsUnitTimesQuantity ==
    \A i \in DOMAIN results :
        results[i].requested_quantity # NoNumber =>
            results[i].total_price =
                TotalPrice(Num(toFixed2(results[i].unit_price * results[i].requested_quantity[1])))

\* C10, amended: a quote whose requested quantity is positive and not below
\* every tier of its variant has the unit price of the largest tier at or
\* below the quantity and total_price = round2(unit_price * quantity); a quote
\* for a quantity below every tier has no total_price, and a quote for a
\* quantity of 0 or none has a null total_price.
C10_TotalWhenTierSelected ==
    \A i \in DOMAIN results :
        LET q == results[i]
            atOrBelow == {r \in quoteRows(q, lastAttempt.leadTimeType) :
                             truthyNumber(q.requested_quantity)
                             /\ r.quantity <= q.requested_quantity[1]}
        IN  IF ~truthyNumber(q.requested_quantity)
            THEN q.total_price = TotalPrice(NoNumber)
            ELSE IF atOrBelow = {}
                 THEN q.total_price = AbsentTotal
                 ELSE \E t \in atOrBelow :
                         /\ \A o \in atOrBelow : o.quantity <= t.quantity
                         /\ q.unit_price = t.unit_price
                         /\ q.total_price =
                               TotalPrice(Num(toFixed2(t.unit_price * q.requested_quantity[1])))

C10_Witness ==
    /\ answered200
    /\ req.quantity = Num(50)
    /\ Len(resp.results) > 0
    /\ resp.results[1].unit_price = ListPrice(30)
    /\ resp.results[1].total_price = TotalPrice(Num(50 * ListPrice(30)))


\* The position of a name in the matcher's result, 0 when it is not there.
matchRank(name) ==
    IF \E i \in DOMAIN found : found[i].name = name
    THEN CHOOSE i \in DOMAIN found : found[i].name = name
    ELSE 0

\* C13: every product quoted in the response of a free-text request is one
\* of the products the product matcher returned for it; resolution keeps or
\* drops matched candidates and adds none.
C13_QuotesOnlyMatchedProducts ==
    answered200 =>
        \A i \in DOMAIN resp.results : matchRank(resp.results[i].product_name) # 0

\* C14: the quotes of the response are in the same relative order as their
\* products in the matcher's result, whatever the store reads did.
C14_QuotesInMatchOrder ==
    answered200 =>
        \A i, j \in DOMAIN resp.results :
            ( /\ i < j
              /\ matchRank(resp.results[i].product_name) # 0
              /\ matchRank(resp.results[j].product_name) # 0 )
            => matchRank(resp.results[i].product_name)
                   < matchRank(resp.results[j].product_name)

\* C17: a request whose text the parser could not turn into a product (the
\* parser failed, or its output has product null) ends with HTTP 400.
C17_NoProductIsClientError ==
    (pc = "done" /\ truthyString(req.query) /\ req.product = NULL)
        => (resp.kind = "http" /\ resp.status = 400)

\* The local tiers of an alternative product.
localTiers(name) ==
    {r \in pricing : r.product_name = name /\ r.lead_time_type = "local"}

\* The tier C18 expects for an alternative: the cheapest local tier at or
\* below the quantity, the MOQ tier when there is none.
expectedAlternativeTiers(name, quantity) ==
    LET below == {r \in localTiers(name) : r.quantity <= quantity}
    IN  IF below # {}
        THEN {r \in below : \A t \in below : r.unit_price <= t.unit_price}
        ELSE {r \in localTiers(name) : r.is_moq}

\* The products of the category of the first quoted product, that product
\* excepted.
alternativeNames ==
    {products[i].name : i \in {k \in DOMAIN products :
        /\ products[k].name # resp.results[1].product_name
        /\ \E c \in DOMAIN products :
              /\ products[c].name = resp.results[1].product_name
              /\ products[c].category = products[k].category}}

\* C18: each alternative product with a local tier is reported with its
\* cheapest local tier at or below the requested quantity, with its MOQ tier
\* when it has none at or below it.
C18_AlternativeCheapestOrMoq ==
    (answered200 /\ Len(resp.results) > 0 /\ truthyNumber(req.quantity)) =>
        \A name \in alternativeNames :
            localTiers(name) # {} =>
                \E i \in DOMAIN resp.alternatives :
                    /\ resp.alternatives[i].product_name = name
                    /\ \E r \in expectedAlternativeTiers(name, req.quantity[1]) :
                          /\ resp.alternatives[i].print_option = r.print_option
                          /\ resp.alternatives[i].unit_price_at_qty = r.unit_price


\* The variant a quote is about, as the rows of the pricing table.
quotedVariant(q) ==
    {r \in pricing : /\ r.product_name = q.product_name
                     /\ r.print_option = q.print_option
                     /\ q.lead_time # <<>>
                     /\ r.lead_time_type = q.lead_time[1].type}

\* C11: with the quantity left out (null or 0) no single tier is selected:
\* every quote carries the variant's whole tier list in quantity order with
\* the MOQ tier flagged and no total price, and its unit price is not the
\* price of one particular tier.
C11_NoTierSelectedWithoutQuantity ==
    (answered200 /\ ~truthyNumber(req.quantity)) =>
        \A i \in DOMAIN resp.results :
            LET q == resp.results[i] IN
            /\ q.total_price.value = NoNumber
            /\ {q.all_tiers[k].quantity : k \in DOMAIN q.all_tiers}
                   = {r.quantity : r \in quotedVariant(q)}
            /\ \A k \in 1..(Len(q.all_tiers) - 1) :
                   q.all_tiers[k].quantity <= q.all_tiers[k + 1].quantity
            /\ \E k \in DOMAIN q.all_tiers : q.all_tiers[k].is_moq
            /\ \A k \in DOMAIN q.all_tiers : q.unit_price # q.all_tiers[k].unit_price


(***************************************************************************)
(* getMOQInfo and POST /api/price/lookup                                   *)
(***************************************************************************)
\* .order('unit_price', { ascending: true }): the rows in an order the sort allows.
sortedByUnitPrice(S) ==
    {q \in Orderings(S) : \A i, j \in DOMAIN q : i < j => q[i].unit_price <= q[j].unit_price}

\* Lines 183-193: the first row of every print_option|lead_time_type key, in
\* the order the keys are first met.
firstOfEachVariant(data) ==
    LET first == SelectSeq([i \in DOMAIN data |-> i],
                           LAMBDA i : ~\E j \in 1..(i - 1) :
                                         /\ data[j].print_option = data[i].print_option
                                         /\ data[j].lead_time_type = data[i].lead_time_type)
    IN  [k \in DOMAIN first |-> data[first[k]]]

moqVariant(row) ==
    [print_option |-> row.print_option, lead_time_type |-> row.lead_time_type,
     moq |-> row.quantity, moq_price |-> row.unit_price]

\* variants.reduce((min, v) => v.moq_price < min.moq_price ? v : min): the
\* first variant of the lowest price.
lowestMoq(variants) ==
    LET low == {i \in DOMAIN variants :
                   \A j \in DOMAIN variants : variants[i].moq_price <= variants[j].moq_price}
    IN  variants[CHOOSE i \in low : \A j \in low : i <= j]

moqInfo(productName, variants) ==
    [product_name |-> productName,
     variants |-> variants,
     lowest_moq |-> [quantity |-> lowestMoq(variants).moq,
                     print_option |-> lowestMoq(variants).print_option,
                     unit_price |-> lowestMoq(variants).moq_price]]

getMOQInfo(rows, productName) ==
    LET flagged == {r \in rows : r.product_name = productName /\ r.is_moq}
        every == {r \in rows : r.product_name = productName}
        moqRead(ok) == Read("getMOQInfo", NULL, productName, ok)
        fallbackRead(ok) == Read("getMOQInfo.fallback", NULL, productName, ok)
    IN  IF ~truthyString(productName) THEN {Outcome(TRUE, <<>>, <<>>)}
        ELSE {Outcome(TRUE, <<>>, <<moqRead(FALSE)>>)}
             \cup
             IF flagged # {}
             THEN {Outcome(FALSE,
                           <<moqInfo(productName, [i \in DOMAIN q |-> moqVariant(q[i])])>>,
                           <<moqRead(TRUE)>>) : q \in sortedByUnitPrice(flagged)}
             ELSE \* if (fallbackError || !fallbackData || ...) return null
                  {Outcome(FALSE, <<>>, <<moqRead(TRUE), fallbackRead(FALSE)>>)}
                  \cup
                  IF every = {}
                  THEN {Outcome(FALSE, <<>>, <<moqRead(TRUE), fallbackRead(TRUE)>>)}
                  ELSE {Outcome(FALSE,
                                <<moqInfo(productName,
                                          LET firsts == firstOfEachVariant(q)
                                          IN  [i \in DOMAIN firsts |-> moqVariant(firsts[i])])>>,
                                <<moqRead(TRUE), fallbackRead(TRUE)>>) :
                           q \in sortedByQuantity(every)}

\* Lines 251-262: the data of the response, from the result of
\* getPriceForQuantity and the one of getMOQInfo (<<>> for null).
lookupData(price, info) ==
    [product_name |-> price.product_name,
     print_option |-> price.print_option,
     lead_time_type |-> price.lead_time_type,
     quantity |-> IF truthyNumber(price.requested_quantity)
                  THEN price.requested_quantity[1] ELSE price.quantity,
     unit_price |-> price.unit_price,
     total_price |-> price.total_price,
     moq |-> IF info = <<>> THEN <<>> ELSE <<info[1].lowest_moq>>]

lookupOk(data) == [httpOk(<<>>, <<>>, <<>>) EXCEPT !.data = <<data>>]

\* lead_time_type || 'local'
lookupLeadTimeType(lead_time_type) ==
    IF truthyString(lead_time_type) THEN lead_time_type ELSE "local"

\* Lines 213-240: the check of the body and the call of getPriceForQuantity;
\* its result is held in results until the response is built.
LookupPrice ==
    /\ pc = "lookup"
    /\ IF ~truthyString(req.product_name)
       THEN /\ resp' = httpError(400, "MISSING_PARAMETERS")
            /\ pc' = "done"
            /\ UNCHANGED <<reads, results>>
       ELSE \E o \in getPriceForQuantity(pricing, req.product_name, req.print_option,
                                         lookupLeadTimeType(req.lead_time_type),
                                         req.quantity) :
               /\ reads' = reads \o o.reads
               /\ IF o.threw
                  THEN resp' = serviceError /\ pc' = "done" /\ UNCHANGED results
                  ELSE IF o.val = <<>>
                       THEN /\ resp' = httpError(404, "PRODUCT_NOT_FOUND")
                            /\ pc' = "done"
                            /\ UNCHANGED results
                       ELSE /\ results' = o.val
                            /\ pc' = "getMOQInfo"
                            /\ UNCHANGED resp
    /\ UNCHANGED <<products, pricing, req, found, routeLeadTimeType, attempts>>

\* Lines 242-263: the call of getMOQInfo and the response.
LookupMoq ==
    /\ pc = "getMOQInfo"
    /\ \E o \in getMOQInfo(pricing, req.product_name) :
          /\ reads' = reads \o o.reads
          /\ resp' = IF o.threw THEN serviceError
                     ELSE lookupOk(lookupData(results[1], o.val))
    /\ pc' = "done"
    /\ UNCHANGED <<products, pricing, req, found, routeLeadTimeType, attempts, results>>

(***************************************************************************)
(* The requests and the catalogs of the /lookup route.  A catalog has at   *)
(* most MaxGroups variants of Tote Bag with the tiers 30 and 100, or 50    *)
(* and 100 for embroidery; the import flags the first tier of every        *)
(* variant, and rows written without the is_moq column keep its default    *)
(* FALSE.                                                                  *)
(***************************************************************************)
LookupGroups ==
    ({"Tote Bag"} \X {"heat transfer", "silkscreen print - 2c x 1c"}
                  \X {"local", "overseas_sea"} \X {{30, 100}})
    \cup {<<"Tote Bag", "embroidery", "local", {50, 100}>>}

LookupCatalogs ==
    {UNION {Variant(g[1], g[2], g[3], g[4], IF flagged THEN {q \in g[4] : q < 100} ELSE {}) :
               g \in groups} :
        groups \in {x \in SUBSET LookupGroups : Cardinality(x) <= MaxGroups},
        flagged \in BOOLEAN}

LookupRequests ==
    [op : {"lookup"}, product_name : {"Tote Bag", "Mug", NULL},
     print_option : {NULL, "heat transfer", "full color"},
     lead_time_type : {NULL, "overseas_sea"},
     quantity : {NoNumber, Num(10), Num(50)}]

InitLookup ==
    /\ products = QueryProducts
    /\ pricing \in LookupCatalogs
    /\ req \in LookupRequests
    /\ pc = "lookup"
    /\ reads = <<>>
    /\ found = <<>>
    /\ routeLeadTimeType = NULL
    /\ attempts = <<>>
    /\ results = <<>>
    /\ resp = NoResponse

NextLookup == LookupPrice \/ LookupMoq

SpecLookup == InitLookup /\ [][NextLookup]_vars


(***************************************************************************)
(* Claims about the /lookup route (checked under SpecLookup).              *)
(***************************************************************************)
lookupDone == req.op = "lookup" /\ pc = "done"

everyReadAnswered == \A i \in DOMAIN reads : reads[i].ok

\* The responses the handler can send for the request of this run when the
\* store answers every read: one for each order in which the store may
\* return the rows its queries leave unordered.
lookupResponses ==
    IF ~truthyString(req.product_name) THEN {httpError(400, "MISSING_PARAMETERS")}
    ELSE UNION {IF p.val = <<>>
                THEN {httpError(404, "PRODUCT_NOT_FOUND")}
                ELSE {lookupOk(lookupData(p.val[1], m.val)) :
                         m \in {x \in getMOQInfo(pricing, req.product_name) :
                                   ~x.threw /\ failures(x.reads) = 0}} :
                   p \in {x \in getPriceForQuantity(pricing, req.product_name,
                                                    req.print_option,
                                                    lookupLeadTimeType(req.lead_time_type),
                                                    req.quantity) :
                             ~x.threw /\ failures(x.reads) = 0}}

\* C19: the response to a structured request is the same whenever the
\* request is resolved against the same catalog, whatever order the store
\* returns unordered rows in.
C19_SameRequestSameOutput ==
    (lookupDone /\ everyReadAnswered) => \A again \in lookupResponses : again = resp

\* The product of the request as the product matcher would return it.
lookupMatched ==
    withMatchType(SelectSeq(products, LAMBDA r : r.name = req.product_name), "exact")

\* The quotes one call of getPricingForProducts can give for that product in
\* a class when the store answers every read.
quotesIn(class) ==
    {o.val : o \in {x \in getPricingForProducts(pricing, lookupMatched, req.quantity,
                                                req.print_option, class) :
                       ~x.threw /\ failures(x.reads) = 0}}

\* The results of the /query route for that product: the call for the class
\* asked and the retries of the route.
freeTextResults ==
    LET first == lookupLeadTimeType(req.lead_time_type) IN
    UNION {IF Len(a) > 0 \/ nextLeadTimeType(<<[leadTimeType |-> first]>>) = <<>>
           THEN {a}
           ELSE UNION {IF Len(b) > 0 THEN {b} ELSE quotesIn("overseas_sea") :
                          b \in quotesIn("overseas_air")} :
              a \in quotesIn(first)}

\* C15: for the same exact product name, print text, delivery class and
\* quantity, /lookup answers with the variant, unit price and total price of
\* the quote the /query route gives for that product, and finds nothing
\* only when /query quotes nothing.
C15_LookupAgreesWithQuery ==
    (lookupDone /\ everyReadAnswered /\ Len(lookupMatched) = 1) =>
        \E quotes \in freeTextResults :
            IF Len(quotes) = 0
            THEN resp.status = 404
            ELSE /\ resp.status = 200
                 /\ \E i \in DOMAIN quotes :
                       /\ quotes[i].product_name = resp.data[1].product_name
                       /\ quotes[i].print_option = resp.data[1].print_option
                       /\ quotes[i].lead_time = <<[type |-> resp.data[1].lead_time_type]>>
                       /\ quotes[i].unit_price = resp.data[1].unit_price
                       /\ quotes[i].total_price = resp.data[1].total_price


(***************************************************************************)
(* Both entry points: a run is a /query request or a /lookup request.      *)
(***************************************************************************)
InitRoutes == Init \/ InitLookup

NextRoutes == Next \/ NextLookup

SpecRoutes == InitRoutes /\ [][NextRoutes]_vars

\* The request ended without a quote and without a rejected body or a
\* failure of the parser or the store.
zeroResults ==
    /\ pc = "done"
    /\ resp.kind = "http"
    /\ resp.status \notin {400, 500}
    /\ results = <<>>

\* C16 as the specification states it: for both entry points an outcome
\* with zero results is not an error, and the response tells "no product
\* matched" from "a product matched but has no price" (the message of the
\* response is there exactly when no product matched).
C16_ZeroResultsNotAnError ==
    zeroResults =>
        /\ resp.status = 200
        /\ (resp.meta_message # NULL) <=> (Len(found) = 0)

\* C16 as the code has it: /query answers 200 with a message exactly when no
\* product matched; /lookup answers with the error 404 PRODUCT_NOT_FOUND,
\* the same for an unknown product and for a variant without a tier.
C16_QueryDistinguishesLookup404 ==
    zeroResults =>
        IF req.op = "query"
        THEN /\ resp.status = 200
             /\ (resp.meta_message # NULL) <=> (Len(found) = 0)
        ELSE resp = httpError(404, "PRODUCT_NOT_FOUND")

C16_Witness ==
    /\ zeroResults
    /\ req.op = "lookup"
    /\ resp.status = 404
    /\ \E r \in pricing : r.product_name = req.product_name
    /\ everyReadAnswered

\* /query ends with zero results after a product matched.
MatchedButNoPrice ==
    zeroResults /\ req.op = "query" /\ Len(found) > 0 /\ resp.meta_message = NULL


(***************************************************************************)
(* The authentication middleware of the router.  The request carries its   *)
(* Authorization header (NULL when it has none) and the process its        *)
(* PRICE_AGENT_API_KEY (NULL when the variable is not set).                *)
(***************************************************************************)
\* String.prototype.startsWith
startsWith(s, prefix) == Len(s) >= Len(prefix) /\ SubSeq(s, 1, Len(prefix)) = prefix

\* authHeader.split(' ')[1], of a header that starts with 'Bearer '.
bearerToken(authHeader) == splitSpace(authHeader)[2]

\* Lines 26-44: the middleware calls next().
authenticated(authHeader, apiKey) ==
    /\ truthyString(authHeader)
    /\ startsWith(authHeader, "Bearer ")
    /\ apiKey # NULL
    /\ bearerToken(authHeader) = apiKey

\* Lines 26-47: a request is answered 401 or handed to its route.
Authenticate ==
    /\ pc = "authenticate"
    /\ IF authenticated(req.authorization, req.apiKey)
       THEN /\ pc' = (IF req.op = "query" THEN "parseQuery" ELSE "lookup")
            /\ UNCHANGED resp
       ELSE /\ resp' = httpError(401, "UNAUTHORIZED")
            /\ pc' = "done"
    /\ UNCHANGED <<products, pricing, req, reads, found, routeLeadTimeType, attempts, results>>

AuthHeaders ==
    {NULL, "", "Bearer k1", "Bearer k2", "Bearer k1 x", "Bearer  k1", "Bearer ",
     "bearer k1", "Basic k1", "k1"}

ApiKeys == {NULL, "", "k1"}

AuthCatalogs ==
    {{}, Variant("Tote Bag", "heat transfer", "local", {30, 100}, {30})}

AuthRequests ==
    {[op |-> "query", authorization |-> h, apiKey |-> k, query |-> "text",
      product |-> p, quantity |-> Num(50), print_option |-> NULL, lead_time |-> NULL] :
        h \in AuthHeaders, k \in ApiKeys, p \in {"Tote Bag", "zzz"}}
    \cup
    {[op |-> "lookup", authorization |-> h, apiKey |-> k, product_name |-> "Tote Bag",
      print_option |-> o, lead_time_type |-> NULL, quantity |-> Num(50)] :
        h \in AuthHeaders, k \in ApiKeys, o \in {NULL, "heat transfer"}}

InitAuth ==
    /\ products = QueryProducts
    /\ pricing \in AuthCatalogs
    /\ req \in AuthRequests
    /\ pc = "authenticate"
    /\ reads = <<>>
    /\ found = <<>>
    /\ routeLeadTimeType = NULL
    /\ attempts = <<>>
    /\ results = <<>>
    /\ resp = NoResponse

NextAuth == Authenticate \/ NextRoutes

SpecAuth == InitAuth /\ [][NextAuth]_vars

\* C21: a request whose Authorization header is not 'Bearer ' followed by
\* exactly the configured API key, and any request when no key is
\* configured, is answered 401 UNAUTHORIZED and reaches no route handler, no
\* parser call and no store read.
C21_OnlyExactBearerKeyPasses ==
    (req.apiKey = NULL \/ req.authorization # "Bearer " \o req.apiKey) =>
        /\ pc \in {"authenticate", "done"}
        /\ reads = <<>>
        /\ pc = "done" => resp = httpError(401, "UNAUTHORIZED")


(***************************************************************************)
(* More claims about the /query route (checked under Spec).                *)
(***************************************************************************)
\* The matched products with tiers in an overseas class and none in local.
overseasOnlyMatches ==
    {found[i].name : i \in {k \in DOMAIN found :
        /\ \E r \in pricing : r.product_name = found[k].name
        /\ \A r \in pricing : r.product_name = found[k].name => r.lead_time_type # "local"}}

\* C24: the delivery fallback is applied to each matched product on its own:
\* with the default class asked and no print option, a matched product with
\* tiers in overseas classes only is quoted, with the class of its tiers
\* reported, whatever the other matched products have.
C24_FallbackPerProduct ==
    ( /\ answered200
      /\ everyReadAnswered
      /\ requestedClass = "local"
      /\ req.print_option = NULL )
    => \A name \in overseasOnlyMatches :
           \E i \in DOMAIN resp.results :
               /\ resp.results[i].product_name = name
               /\ resp.results[i].lead_time # <<>>
               /\ \E r \in pricing :
                     /\ r.product_name = name
                     /\ r.lead_time_type = resp.results[i].lead_time[1].type


(***************************************************************************)
(* More claims about searchProducts (checked under SpecSearch).            *)
(***************************************************************************)
\* C25: a product tagged exact_insensitive has a name equal to the trimmed
\* query up to case, for every query, one with % or _ included: the tier
\* does no substring or wildcard matching.
C25_InsensitiveTierIsEquality ==
    \A i \in DOMAIN found :
        found[i].matchType = "exact_insensitive" =>
            toLowerCase(found[i].name) = toLowerCase(trim(req.query))


(***************************************************************************)
(* More claims about the /lookup route (checked under SpecLookup).         *)
(***************************************************************************)
lookupAnswered200 == lookupDone /\ resp.kind = "http" /\ resp.status = 200

\* The tiers of the variant a /lookup response is about.
lookupVariant ==
    {r \in pricing : /\ r.product_name = resp.data[1].product_name
                     /\ r.print_option = resp.data[1].print_option
                     /\ r.lead_time_type = resp.data[1].lead_time_type}

\* C26: the moq of a successful /lookup response is the minimum-order tier
\* of the variant whose price is returned: that variant's print option, its
\* smallest quantity and the unit price of that tier.
C26_MoqOfRequestedVariant ==
    (lookupAnswered200 /\ everyReadAnswered) =>
        /\ resp.data[1].moq # <<>>
        /\ resp.data[1].moq[1].print_option = resp.data[1].print_option
        /\ \E r \in lookupVariant :
              /\ \A t \in lookupVariant : r.quantity <= t.quantity
              /\ resp.data[1].moq[1].quantity = r.quantity
              /\ resp.data[1].moq[1].unit_price = r.unit_price


(***************************************************************************)
(* The import script (scripts/importData.js): parseCSV.  A row of the      *)
(* sheet is <<colA, colB, colC>>, each cell a string, NULL for a cell the  *)
(* row does not have.  Numbers are read as parseInt and parseFloat read    *)
(* them (digits and a decimal point; prices are held in thousandths), NaN  *)
(* is NoNumber.                                                            *)
(***************************************************************************)
DigitValue(c) ==
    CASE c = "0" -> 0 [] c = "1" -> 1 [] c = "2" -> 2 [] c = "3" -> 3 [] c = "4" -> 4
      [] c = "5" -> 5 [] c = "6" -> 6 [] c = "7" -> 7 [] c = "8" -> 8 [] c = "9" -> 9

\* The run of digits that starts at position i.
RECURSIVE digitsFrom(_, _)
digitsFrom(s, i) ==
    IF i <= Len(s) /\ IsDigit(CharAt(s, i)) THEN CharAt(s, i) \o digitsFrom(s, i + 1) ELSE ""

RECURSIVE digitsValue(_, _)
digitsValue(ds, acc) ==
    IF ds = "" THEN acc ELSE digitsValue(Tail(ds), 10 * acc + DigitValue(Head(ds)))

\* parseInt(cell): the leading digits after leading white space, or NaN.
parseInt(cell) ==
    IF cell = NULL THEN NoNumber
    ELSE LET ds == digitsFrom(trimStart(cell), 1)
         IN  IF ds = "" THEN NoNumber ELSE Num(digitsValue(ds, 0))

\* parseFloat(cell), in thousandths: digits, then a point and digits.
parseFloat(cell) ==
    IF cell = NULL THEN NoNumber
    ELSE LET s == trimStart(cell)
             whole == digitsFrom(s, 1)
             point == Len(whole) + 1 <= Len(s) /\ CharAt(s, Len(whole) + 1) = "."
             fraction == IF point THEN digitsFrom(s, Len(whole) + 2) ELSE ""
             thousandths == SubSeq(fraction \o "000", 1, 3)
         IN  IF whole = "" /\ fraction = "" THEN NoNumber
             ELSE Num(1000 * digitsValue(whole, 0) + digitsValue(thousandths, 0))

\* String.prototype.indexOf and lastIndexOf of one character (0-based, -1).
indexOf(s, c) ==
    LET at == {i \in 1..Len(s) : CharAt(s, i) = c}
    IN  IF at = {} THEN -1 ELSE (CHOOSE i \in at : \A j \in at : i <= j) - 1

lastIndexOf(s, c) ==
    LET at == {i \in 1..Len(s) : CharAt(s, i) = c}
    IN  IF at = {} THEN -1 ELSE (CHOOSE i \in at : \A j \in at : j <= i) - 1

\* String.prototype.substring(start, end): both clamped to the string, and
\* swapped when start is the larger.
substring(s, start, end) ==
    LET clamp(n) == IF n < 0 THEN 0 ELSE IF n > Len(s) THEN Len(s) ELSE n
        lo == IF clamp(start) <= clamp(end) THEN clamp(start) ELSE clamp(end)
        hi == IF clamp(start) <= clamp(end) THEN clamp(end) ELSE clamp(start)
    IN  SubSeq(s, lo + 1, hi)

\* s.split(','): every comma is a separator.
RECURSIVE splitComma(_, _, _)
splitComma(s, acc, cur) ==
    IF s = "" THEN Append(acc, cur)
    ELSE IF Head(s) = ","
         THEN splitComma(Tail(s), Append(acc, cur), "")
         ELSE splitComma(Tail(s), acc, cur \o Head(s))

\* parts.join(', ')
RECURSIVE joinComma(_)
joinComma(parts) ==
    IF Len(parts) = 0 THEN ""
    ELSE IF Len(parts) = 1 THEN parts[1]
         ELSE parts[1] \o ", " \o joinComma(Tail(parts))

\* colA.replace(/^"|"$/g, '')
stripQuotes(s) ==
    LET a == IF Len(s) > 0 /\ CharAt(s, 1) = "\"" THEN SubSeq(s, 2, Len(s)) ELSE s
    IN  IF Len(a) > 0 /\ CharAt(a, Len(a)) = "\"" THEN SubSeq(a, 1, Len(a) - 1) ELSE a

\* parseProductRow: <<[product_name, dimensions, print_option]>>, or <<>>
\* for null.
parseProductRow(colA) ==
    LET text == trim(stripQuotes(colA))
        firstParenIndex == indexOf(text, "(")
        insideParens == substring(text, firstParenIndex + 1, lastIndexOf(text, ")"))
        raw == splitComma(insideParens, <<>>, "")
        parts == [k \in DOMAIN raw |-> trim(raw[k])]
        rest == trim(joinComma(Tail(parts)))
    IN  IF firstParenIndex = -1 THEN <<>>
        ELSE << [product_name |-> trim(substring(text, 0, firstParenIndex)),
                 dimensions |-> parts[1],
                 print_option |-> IF rest = "" THEN "No Print" ELSE rest] >>

\* The words of a pattern such as /5\s*to\s*10\s*working\s*days/ matched
\* from position i on, any white space between them.
RECURSIVE matchWordsAt(_, _, _)
matchWordsAt(s, i, words) ==
    IF Len(words) = 0 THEN TRUE
    ELSE /\ i + Len(words[1]) - 1 <= Len(s)
         /\ SubSeq(s, i, i + Len(words[1]) - 1) = words[1]
         /\ matchWordsAt(s, skipSpaces(s, i + Len(words[1])), Tail(words))

\* regex.test(headerText) of a case-insensitive pattern of such words.
testWords(headerText, words) ==
    \E i \in 1..Len(headerText) : matchWordsAt(toLowerCase(headerText), i, words)

leadTime(type, min, max) == [type |-> type, min |-> min, max |-> max]

parseLeadTime(headerText) ==
    IF testWords(headerText, <<"5", "to", "10", "working", "days">>)
    THEN leadTime("local", 5, 10)
    ELSE IF testWords(headerText, <<"10", "to", "15", "working", "days">>)
         THEN leadTime("overseas_air", 10, 15)
         ELSE IF testWords(headerText, <<"20", "to", "35", "working", "days">>)
              THEN leadTime("overseas_sea", 20, 35)
              ELSE leadTime("local", 5, 10)

isSectionHeader(row) ==
    LET colA == trim(IF row[1] = NULL THEN "" ELSE row[1])
    IN  includes(colA, " - ") /\ includes(toLowerCase(colA), "working days")

ImportRecord(st, colB, colC, isMoq) ==
    [product_name |-> st.currentProduct,
     dimensions |-> st.currentDimensions,
     print_option |-> st.currentPrintOption,
     lead_time_type |-> st.currentLeadTime.type,
     lead_time_days_min |-> st.currentLeadTime.min,
     lead_time_days_max |-> st.currentLeadTime.max,
     quantity |-> parseInt(colB),
     unit_price |-> parseFloat(colC),
     is_moq |-> isMoq]

\* is_moq: tierOrder === 0
firstTier(tierOrder) == tierOrder = 0

\* The state of the loop before the first row.
parseStart ==
    [records |-> <<>>, currentLeadTime |-> leadTime("local", 5, 10),
     currentProduct |-> NULL, currentPrintOption |-> NULL, currentDimensions |-> NULL,
     tierOrder |-> 0]

\* One turn of the loop over the rows.
parseRow(st, row) ==
    LET colA == trim(IF row[1] = NULL THEN "" ELSE row[1])
        colB == row[2]
        colC == row[3]
    IN  IF colA = "" /\ ~truthyString(colB) /\ ~truthyString(colC)
        THEN [st EXCEPT !.tierOrder = 0]
        ELSE IF isSectionHeader(row)
        THEN [st EXCEPT !.currentLeadTime = parseLeadTime(colA)]
        ELSE IF includes(toLowerCase(colA), "updated on")
        THEN st
        ELSE IF colA = "" /\ colB = "Qty"
        THEN st
        ELSE IF colA # "" /\ includes(colA, "(") /\ parseFloat(colB) # NoNumber
        THEN LET parsed == parseProductRow(colA) IN
             IF parsed = <<>> THEN st
             ELSE LET named == [st EXCEPT !.currentProduct = parsed[1].product_name,
                                          !.currentDimensions = parsed[1].dimensions,
                                          !.currentPrintOption = parsed[1].print_option,
                                          !.tierOrder = 0]
                  IN  [named EXCEPT
                         !.records = Append(st.records,
                                            ImportRecord(named, colB, colC, firstTier(named.tierOrder))),
                         !.tierOrder = 1]
        ELSE IF colA = "" /\ parseFloat(colB) # NoNumber /\ parseFloat(colC) # NoNumber
        THEN IF truthyString(st.currentProduct)
             THEN [st EXCEPT !.records = Append(st.records,
                                                ImportRecord(st, colB, colC, FALSE)),
                             !.tierOrder = st.tierOrder + 1]
             ELSE st
        ELSE st

RECURSIVE parseRows(_, _, _)
parseRows(rows, i, st) ==
    IF i > Len(rows) THEN st ELSE parseRows(rows, i + 1, parseRow(st, rows[i]))

parseCSV(rows) == parseRows(rows, 1, parseStart).records

ParseCSV ==
    /\ pc = "parseCSV"
    /\ resp' = Returned(parseCSV(req.rows))
    /\ pc' = "done"
    /\ UNCHANGED <<products, pricing, req, reads, found, routeLeadTimeType, attempts, results>>

(***************************************************************************)
(* parseCSV on its own: a sheet of at most MaxRows rows out of the kinds   *)
(* of rows the price sheet has.                                            *)
(***************************************************************************)
MaxRows == 4

SheetRows ==
    { <<"", "", "">>,
      <<"Sea - 20 to 35 working days", "", "">>,
      <<"", "Qty", "Price">>,
      <<"Bag (A4, uv)", "30", "4.42">>,
      <<"Bag (A4, uv)", "100", "2.68">>,
      <<"\"Bag (A4)\"", "30", "4.42">>,
      <<"", "30", "4.42">>,
      <<"", "100", "2.68">>,
      <<"", "100", "2.5">> }

InitImport ==
    /\ products = <<>>
    /\ pricing = {}
    /\ req \in [op : {"import"}, rows : UNION {[1..n -> SheetRows] : n \in 0..MaxRows}]
    /\ pc = "parseCSV"
    /\ reads = <<>>
    /\ found = <<>>
    /\ routeLeadTimeType = NULL
    /\ attempts = <<>>
    /\ results = <<>>
    /\ resp = NoResponse

NextImport == ParseCSV

SpecImport == InitImport /\ [][NextImport]_vars

(***************************************************************************)
(* Claims about parseCSV (checked under SpecImport).                       *)
(***************************************************************************)
parsed == pc = "done" /\ req.op = "import"

importRecords == resp.value

sameVariant(a, b) ==
    /\ a.product_name = b.product_name
    /\ a.print_option = b.print_option
    /\ a.lead_time_type = b.lead_time_type

\* C27: in the records of parseCSV every (product_name, print_option,
\* lead_time_type) group has exactly one record with is_moq = true, and it
\* is the record of the group's smallest quantity, whatever the rows.
C27_OneMoqPerVariantAtSmallest ==
    parsed =>
        \A i \in DOMAIN importRecords :
            LET group == {k \in DOMAIN importRecords :
                             sameVariant(importRecords[k], importRecords[i])}
                flagged == {k \in group : importRecords[k].is_moq}
            IN  /\ Cardinality(flagged) = 1
                /\ \A k \in flagged : \A j \in group :
                      importRecords[k].quantity[1] <= importRecords[j].quantity[1]

\* C28: the records of parseCSV hold no two records of the same
\* (product_name, print_option, lead_time_type, quantity).
C28_NoDuplicateTier ==
    parsed =>
        \A i, j \in DOMAIN importRecords :
            (i # j /\ sameVariant(importRecords[i], importRecords[j]))
                => importRecords[i].quantity # importRecords[j].quantity


(***************************************************************************)
(* The quotes of getPricingForProducts (checked under Spec, whose catalogs *)
(* hold no two tiers of the same product, print option, class and          *)
(* quantity).                                                              *)
(***************************************************************************)
\* The last call of getPricingForProducts has returned.
pricingReturned == Len(attempts) > 0 /\ pc \in {"getAlternatives", "done"}

\* The tiers the catalog holds for the variant a quote names.
variantTiers(q) ==
    {[quantity |-> r.quantity, unit_price |-> r.unit_price, is_moq |-> r.is_moq] :
        r \in {x \in pricing : /\ x.product_name = q.product_name
                               /\ x.print_option = q.print_option
                               /\ q.lead_time # <<>>
                               /\ x.lead_time_type = q.lead_time[1].type}}

consistentQuote(q) ==
    /\ Range(q.all_tiers) = variantTiers(q)
    /\ \A i, j \in DOMAIN q.all_tiers :
          i < j => q.all_tiers[i].quantity < q.all_tiers[j].quantity
    /\ \E i \in DOMAIN q.all_tiers : q.all_tiers[i].unit_price = q.unit_price
    /\ q.moq = << [quantity |-> q.all_tiers[1].quantity,
                   unit_price |-> q.all_tiers[1].unit_price] >>

\* C29: when no store read fails, every quote getPricingForProducts returns
\* lists exactly the tiers of its (product, print option, delivery class) in
\* strictly ascending quantity order, its unit price is the unit price of
\* one of them, and its moq is the first, smallest-quantity, of them.
C29_QuoteInternallyConsistent ==
    (pricingReturned /\ everyReadAnswered) =>
        \A i \in DOMAIN results : consistentQuote(results[i])

\* A quote of a two-tier variant whose unit price is not the price of its moq.
C29_Witness ==
    /\ pricingReturned
    /\ everyReadAnswered
    /\ Len(results) > 0
    /\ Len(results[1].all_tiers) = 2
    /\ results[1].moq # <<>>
    /\ results[1].unit_price # results[1].moq[1].unit_price


(***************************************************************************)
(* The Discord bot: the !price command (commands/price.js), its client of  *)
(* the backend (services/priceApi.js) and the formatter                    *)
(* (utils/formatters.js).  A reply is an embed, of which the title and the *)
(* names of the fields are kept, or a line of text; it is held in resp     *)
(* together with the payload that was answered.                            *)
(***************************************************************************)
Embed(title, fields) == [type |-> "embed", title |-> title, fields |-> fields]

TextReply(content) == [type |-> "text", title |-> content, fields |-> <<>>]

Replied(reply, payload) == [kind |-> "reply", reply |-> reply, payload |-> payload]

\* The field added under a condition.
fieldIf(cond, name) == IF cond THEN <<name>> ELSE <<>>

\* result.pricing.total_price.toFixed(2) throws a TypeError on null and on
\* undefined.
toFixedThrows(total_price) == ~total_price.defined \/ total_price.value = NoNumber

\* formatSingleProduct: <<embed>>, or <<>> when it throws.  result.pricing
\* is an object in every quote, so the Price field is always built.
formatSingleProduct(result, alternatives) ==
    IF toFixedThrows(result.total_price) THEN <<>>
    ELSE << Embed(result.product_name,
                  fieldIf(truthyString(result.print_option), "Print Option")
                  \o fieldIf(result.lead_time # <<>>, "Lead Time")
                  \o <<"Price">>
                  \o fieldIf(result.moq # <<>>, "MOQ")
                  \o fieldIf(Len(result.all_tiers) > 0, "Quantity Tiers")
                  \o fieldIf(Len(alternatives) > 0, "Other Print Options")) >>

formatMultipleProducts(quotes) ==
    << Embed("Found " \o ToString(Len(quotes)) \o " products",
             [i \in 1..(IF Len(quotes) < 5 THEN Len(quotes) ELSE 5) |->
                 quotes[i].product_name] \o <<"Tip">>) >>

formatNoResults(payload) ==
    << Embed("No products found", fieldIf(Len(payload.suggestions) > 0, "Did you mean?")) >>

\* formatPriceResponse of the data of a success payload; products_found is
\* the number of its results.
formatPriceResponse(payload) ==
    IF Len(payload.results) = 0 THEN formatNoResults(payload)
    ELSE IF Len(payload.results) = 1
         THEN formatSingleProduct(payload.results[1], payload.alternatives)
         ELSE formatMultipleProducts(payload.results)

\* Lines 25-40 of the command: what is replied to a payload of the backend.
replyTo(payload) ==
    IF payload.status = 200
    THEN LET formattedResponse == formatPriceResponse(payload)
         IN  IF formattedResponse = <<>>
             THEN TextReply("Could not fetch pricing. Please try again later.")
             ELSE formattedResponse[1]
    ELSE TextReply("**Error:** " \o payload.code)

\* args.join(' ')
RECURSIVE joinSpace(_)
joinSpace(args) ==
    IF Len(args) = 0 THEN ""
    ELSE IF Len(args) = 1 THEN args[1]
         ELSE args[1] \o " " \o joinSpace(Tail(args))

\* Lines 8-24 of the command: the usage reply, or the call of the backend,
\* which may not be reached at all.
Execute ==
    /\ pc = "execute"
    /\ IF Len(req.args) = 0
       THEN /\ resp' = Replied(TextReply("**Please specify a product.**"), NoResponse)
            /\ pc' = "replied"
       ELSE \E reached \in BOOLEAN :
               IF reached
               THEN pc' = "parseQuery" /\ UNCHANGED resp
               ELSE /\ resp' = Replied(
                                 TextReply("Could not fetch pricing. Please try again later."),
                                 NoResponse)
                    /\ pc' = "replied"
    /\ UNCHANGED <<products, pricing, req, reads, found, routeLeadTimeType, attempts, results>>

\* Lines 25-40 of the command, once the backend has answered.
Reply ==
    /\ pc = "done"
    /\ req.op = "query"
    /\ resp.kind = "http"
    /\ resp' = Replied(replyTo(resp), resp)
    /\ pc' = "replied"
    /\ UNCHANGED <<products, pricing, req, reads, found, routeLeadTimeType, attempts, results>>

(***************************************************************************)
(* The !price command in front of the /query route: the words of the       *)
(* message are the query, and the parser's answer is the request's.        *)
(***************************************************************************)
botRequest(args, r) ==
    [op |-> "query", args |-> args, query |-> joinSpace(args),
     product |-> r.product, quantity |-> r.quantity,
     print_option |-> r.print_option, lead_time |-> r.lead_time]

BotRequests ==
    {botRequest(<<"tote", "bag">>, r) : r \in {x \in QueryRequests : x.query # NULL}}
    \cup {botRequest(<<>>, r) : r \in {x \in QueryRequests : x.product = NULL}}

InitBot ==
    /\ products = QueryProducts
    /\ pricing \in QueryCatalogs
    /\ req \in BotRequests
    /\ pc = "execute"
    /\ reads = <<>>
    /\ found = <<>>
    /\ routeLeadTimeType = NULL
    /\ attempts = <<>>
    /\ results = <<>>
    /\ resp = NoResponse

NextBot == Execute \/ Next \/ Reply

SpecBot == InitBot /\ [][NextBot]_vars

(***************************************************************************)
(* Claims about the !price command (checked under SpecBot).                *)
(***************************************************************************)
replied == pc = "replied"

successPayload == resp.payload.kind = "http" /\ resp.payload.status = 200

\* C30: for every success payload of /query the formatter returns an embed
\* and the command replies with it, a single-result payload whose total
\* price is null or absent included; such a payload does not end in the
\* 'Could not fetch pricing' reply.
C30_SuccessPayloadGetsEmbed ==
    (replied /\ successPayload) => resp.reply.type = "embed"

====
